---- MODULE Spec2Model ----
(***************************************************************************)
(* Link-layer / ARQ model of the UVa Libertas ground station.              *)
(*                                                                         *)
(* Modelled from src/ground.py (process_command, process_received, main)   *)
(* and src/ground/packet_functions.py (SppPacket, framing helpers).        *)
(* Frames are sequences of bytes (0..255); Python's 0-based indexing and   *)
(* slicing are reproduced by At and Slice.                                 *)
(***************************************************************************)
EXTENDS Integers, Naturals, Sequences, FiniteSets, TLC

(***************************************************************************)
(* Python sequence primitives                                              *)
(***************************************************************************)
Min(a, b) == IF a < b THEN a ELSE b

Max(a, b) == IF a > b THEN a ELSE b

\* s[i] with a 0-based index
At(s, i) == s[i + 1]

\* position of a slice bound in a sequence of length n (negative bounds
\* count from the end, bounds are clamped to 0..n)
PyIdx(n, i) == IF i < 0 THEN Max(n + i, 0) ELSE Min(i, n)

\* s[a:b]
Slice(s, a, b) == SubSeq(s, PyIdx(Len(s), a) + 1, PyIdx(Len(s), b))

\* s[a:]
SliceFrom(s, a) == SubSeq(s, PyIdx(Len(s), a) + 1, Len(s))

\* [0x00] * n
Zeros(n) == [i \in 1..n |-> 0]

Byte == 0..255

(***************************************************************************)
(* Sequence numbers                                                        *)
(***************************************************************************)
\* variant: the wraparound lands on 0
sn_incrementToZero(sequence_number) ==
    IF sequence_number + 1 > 65535 THEN 0 ELSE sequence_number + 1

sn_increment(sequence_number) ==
    IF sequence_number + 1 > 65535 THEN 1 ELSE sequence_number + 1

\* variant: only the step from 1 is taken
sn_decrementStuck(sequence_number) ==
    IF sequence_number - 1 = 0 THEN 1 ELSE sequence_number

sn_decrement(sequence_number) ==
    IF sequence_number - 1 = 0 THEN 1 ELSE sequence_number - 1

(***************************************************************************)
(* Big-endian integers                                                     *)
(***************************************************************************)
to_bigendian(input_integer, num_bytes) ==
    (IF num_bytes = 4
        THEN << (input_integer \div 16777216) % 256,
                (input_integer \div 65536) % 256 >>
        ELSE << >>)
    \o << (input_integer \div 256) % 256, input_integer % 256 >>

RECURSIVE from_bigendian(_, _)
from_bigendian(input_bigendian, num_bytes) ==
    IF num_bytes = 0 THEN 0
    ELSE At(input_bigendian, num_bytes - 1)
         + 256 * from_bigendian(input_bigendian, num_bytes - 1)

(***************************************************************************)
(* Keys and configuration loaded once by main                              *)
(***************************************************************************)
\* the MAC keys are opaque to the protocol logic: one tag per key
sc_mac_key == 83

gs_mac_key == 71

\* the 16-byte open-access shared secret
oa_key == [i \in 1..16 |-> 64 + i]

mac_digest_len == 16

max_retries == 4

health_payloads_per_packet == 4

science_payloads_per_packet == 2

\* ASCII codes of the callsign "W4UVA "
Callsign == << 87, 52, 85, 86, 65, 32 >>

(***************************************************************************)
(* AX.25 header                                                            *)
(***************************************************************************)
\* (ssid << 1) | mask, for ssid in 0..15 and mask 0x60 or 0x61: the shifted
\* ssid occupies bits 1..4, which the mask leaves clear
SsidByte(ssid, mask) == ((ssid * 2) % 256) + mask

init_ax25_header(dst_callsign, dst_ssid, src_callsign, src_ssid) ==
    [i \in 1..Len(dst_callsign) |-> (dst_callsign[i] * 2) % 256]
    \o << SsidByte(dst_ssid, 96) >>
    \o [i \in 1..Len(src_callsign) |-> (src_callsign[i] * 2) % 256]
    \o << SsidByte(src_ssid, 97) >>
    \o << 3, 240 >>

\* header of the frames the ground station builds (SppPacket.ax25_header)
ax25_header == init_ax25_header(Callsign, 11, Callsign, 0)

\* header of the frames the spacecraft builds
sc_ax25_header == init_ax25_header(Callsign, 0, Callsign, 11)

(***************************************************************************)
(* Message authentication.  chaskey(key, 16, packet).digest() is a keyed   *)
(* 16-byte digest; it is represented by a map that is injective for scopes *)
(* of at most 14 bytes (key tag, scope length, scope, zero fill), i.e. a   *)
(* collision-free MAC on the bounded domain of the model.                  *)
(***************************************************************************)
mac_sign(packet, key) ==
    << key, Len(packet) % 256 >>
    \o SubSeq(packet \o Zeros(14), 1, 14)

(***************************************************************************)
(* GPS time on the wire.  gps_sow is held in units of 1e-7 s, which is     *)
(* what "{:14.7f}".format(gps_sow) keeps of it.                            *)
(***************************************************************************)
spp_time_encode(gps_week, gps_sow) ==
    to_bigendian(gps_week, 2)
    \o to_bigendian(gps_sow \div 10000000, 4)
    \o to_bigendian(gps_sow % 10000000, 4)

(***************************************************************************)
(* SppPacket: building a packet                                            *)
(***************************************************************************)
\* the length field counts one byte more than the packet holds
spp_wrapOneMore(packet_type, gps_week, gps_sow, sequence_number, spp_data, key) ==
    LET unsigned == << packet_type >>
                    \o to_bigendian(28 + Len(spp_data), 2)
                    \o spp_time_encode(gps_week, gps_sow)
                    \o to_bigendian(sequence_number, 2)
                    \o spp_data
    IN  unsigned \o mac_sign(SliceFrom(unsigned, 13), key)

\* SppPacket.__spp_wrap: type, length, time, sequence number, data, MAC
spp_wrap(packet_type, gps_week, gps_sow, sequence_number, spp_data, key) ==
    LET packet_data_length == 28 + Len(spp_data) - 1
        unsigned == << packet_type >>
                    \o to_bigendian(packet_data_length, 2)
                    \o spp_time_encode(gps_week, gps_sow)
                    \o to_bigendian(sequence_number, 2)
                    \o spp_data
    IN  unsigned \o mac_sign(SliceFrom(unsigned, 13), key)

\* SppPacket.__ax25_wrap
ax25_wrap(header, packet_type, spp_packet, ground_maxsize_packets) ==
    LET framed == header \o spp_packet
        padding == 253 - Len(framed)
    IN  IF ground_maxsize_packets /\ packet_type = 24 /\ padding > 0
        THEN framed \o Zeros(padding)
        ELSE framed

(***************************************************************************)
(* SppPacket: parsing a received frame                                     *)
(***************************************************************************)
is_oa_command(ax25_packet) ==
    IF Len(ax25_packet) >= 33
    THEN \A idx \in 0..(Len(oa_key) - 1) :
            At(oa_key, idx) = At(ax25_packet, idx + 16)
    ELSE FALSE

\* SppPacket.__is_libertas_packet: the pair (is_spp_packet, is_oa_packet).
\* ax25_packet[32] is read whatever the length: raised is TRUE when the
\* frame has fewer than 33 bytes and the read raises IndexError, which
\* leaves is_spp_packet at False and is_oa_packet as is_oa_command set it
is_libertas_packet(ax25_packet) ==
    LET raised == Len(ax25_packet) < 33
        is_oa_packet ==
            /\ is_oa_command(ax25_packet)
            /\ ~ raised
            /\ ~ (At(ax25_packet, 32) < 48 \/ At(ax25_packet, 32) > 52)
        is_spp_packet ==
            /\ ~ raised
            /\ ~ is_oa_packet
            /\ ~ (Len(ax25_packet) < 48)
            /\ ~ (At(ax25_packet, 14) # 3 \/ At(ax25_packet, 15) # 240)
    IN  [raised |-> raised, is_spp_packet |-> is_spp_packet,
         is_oa_packet |-> is_oa_packet]

\* SppPacket.__validate_packet: bit 0 is set when any digest byte differs
validate_packet(spp_packet, mac_digest, key) ==
    LET mac_scope == Slice(spp_packet, 13, 0 - mac_digest_len)
        validation_digest == mac_sign(mac_scope, key)
    IN  IF \E idx \in 1..Len(mac_digest) : mac_digest[idx] # validation_digest[idx]
        THEN 1 ELSE 0

\* the padding is taken to be one byte longer than it is
ax25_unwrapOneMore(ax25_packet, packet_type, ground_maxsize_packets) ==
    LET packet_data_length == from_bigendian(Slice(ax25_packet, 17, 19), 2)
        padding == Len(ax25_packet) - (16 + 3 + packet_data_length)
    IN  IF ground_maxsize_packets /\ packet_type = 24 /\ padding > 0
        THEN Slice(ax25_packet, 0, 0 - padding)
        ELSE ax25_packet

\* SppPacket.__ax25_unwrap: the frame with the uplink padding removed
ax25_unwrap(ax25_packet, packet_type, ground_maxsize_packets) ==
    LET packet_data_length == from_bigendian(Slice(ax25_packet, 17, 19), 2)
        padding == Len(ax25_packet) - (16 + 3 + (packet_data_length + 1))
    IN  IF ground_maxsize_packets /\ packet_type = 24 /\ padding > 0
        THEN Slice(ax25_packet, 0, 0 - padding)
        ELSE ax25_packet

\* SppPacket.__spp_unwrap: the fields read from spp_packet; raised is TRUE
\* when spp_data[0] raises IndexError, which leaves command and mac_digest
\* as the constructor set them
spp_unwrap(spp_packet) ==
    LET packet_data_length == from_bigendian(Slice(spp_packet, 1, 3), 2)
        spp_data == Slice(spp_packet, 15,
                          15 + (packet_data_length + 1) - 12 - mac_digest_len)
    IN  [raised |-> (spp_data = << >>),
         packet_type |-> At(spp_packet, 0),
         packet_data_length |-> packet_data_length,
         gps_time |-> Slice(spp_packet, 3, 13),
         sequence_number |-> from_bigendian(Slice(spp_packet, 13, 15), 2),
         spp_data |-> spp_data,
         command |-> IF spp_data = << >> THEN 0 ELSE At(spp_data, 0),
         mac_digest |-> IF spp_data = << >> THEN << >>
                        ELSE SliceFrom(spp_packet, 0 - mac_digest_len)]

\* SppPacket.parse_ax25 on a fresh SppPacket(packet_type, dynamic=False)
\* whose key is key: the attributes of the packet object afterwards.  raised
\* is TRUE when the call is left by an IndexError: in __ax25_unwrap (the
\* length field of a frame of fewer than 19 bytes), in __is_libertas_packet
\* or in __spp_unwrap; __validate_packet has not run then and
\* validation_mask keeps its initial 0
parse_ax25(ax25_received, packet_type, key, ground_maxsize_packets) ==
    LET ax25_packet == ax25_unwrap(ax25_received, packet_type, ground_maxsize_packets)
        spp_packet == SliceFrom(ax25_packet, 16)
        kind == is_libertas_packet(ax25_packet)
        u == spp_unwrap(spp_packet)
    IN  IF Len(ax25_received) < 19 \/ kind.raised
        THEN [raised |-> TRUE,
              is_spp_packet |-> FALSE,
              is_oa_packet |-> FALSE,
              command |-> 0,
              sequence_number |-> 0,
              spp_data |-> << >>,
              validation_mask |-> 0]
        ELSE IF kind.is_spp_packet
        THEN [raised |-> u.raised,
              is_spp_packet |-> TRUE,
              is_oa_packet |-> kind.is_oa_packet,
              command |-> u.command,
              sequence_number |-> u.sequence_number,
              spp_data |-> u.spp_data,
              validation_mask |-> IF u.raised THEN 0
                                  ELSE validate_packet(spp_packet, u.mac_digest, key)]
        ELSE [raised |-> FALSE,
              is_spp_packet |-> FALSE,
              is_oa_packet |-> kind.is_oa_packet,
              command |-> At(ax25_packet, 16 + Len(oa_key)),
              sequence_number |-> 0,
              spp_data |-> << >>,
              validation_mask |-> 0]

\* variant: the frame carries the command XMIT_SCIENCE instead of 0xFF
init_ax25_badpacketScience(header, their_packet_type) ==
    header \o << their_packet_type, 0, 28 >> \o Zeros(10)
           \o << 0, 1, 3 >> \o Zeros(16)

\* init_ax25_badpacket: the frame that stands for a receive timeout
init_ax25_badpacket(header, their_packet_type) ==
    header \o << their_packet_type, 0, 28 >> \o Zeros(10)
           \o << 0, 1, 255 >> \o Zeros(16)

ax25_badpacket == init_ax25_badpacket(ax25_header, 8)

(***************************************************************************)
(* Command catalog (ground/constant.py)                                    *)
(***************************************************************************)
COMMAND_CODES ==
    [ACK |-> 5, NAK |-> 6, CEASE_XMIT |-> 127, NOOP |-> 9, RESET |-> 4,
     XMIT_COUNT |-> 1, XMIT_HEALTH |-> 2, XMIT_SCIENCE |-> 3, READ_MEM |-> 8,
     WRITE_MEM |-> 7, SET_COMMS |-> 11, GET_COMMS |-> 12, SET_MODE |-> 10,
     MAC_TEST |-> 14, PING_RETURN |-> 49, RADIO_RESET |-> 51, PIN_TOGGLE |-> 52]

\* comms.ground_maxsize_packets of ground.ini
ground_maxsize_packets == TRUE

(***************************************************************************)
(* Packets the ground station transmits.  A transmitted packet is recorded *)
(* by the fields that determine its bytes: who built it, its kind, its     *)
(* data and its sequence number, and by its attribute simulated_error,     *)
(* which a new packet has as False.                                        *)
(***************************************************************************)
TcPacket(by, spp_data, sequence_number) ==
    [by |-> by, kind |-> "TC", spp_data |-> spp_data,
     sequence_number |-> sequence_number, simulated_error |-> FALSE]

\* tc_packet = SppPacket('TC', dynamic=True) before a branch has filled it:
\* no data and sequence number 0
NoPacket == TcPacket("none", << >>, 0)

\* SppPacket('OA').set_oa_command(command)
OaPacket(by, command) ==
    [by |-> by, kind |-> "OA", spp_data |-> << command >>,
     sequence_number |-> 0, simulated_error |-> FALSE]

\* make_ack(packet_type, []): the data is the ACK code for both packet types
make_ack(by, packet_type, sequence_number) ==
    [by |-> by, kind |-> packet_type, spp_data |-> << 5 >>,
     sequence_number |-> sequence_number, simulated_error |-> FALSE]

\* an array('B') takes the values 0..255; append of any other value raises
\* OverflowError
IsByte(value) == value \in 0..255

\* for p in packets_to_nak: spp_data.extend(to_bigendian(p.sequence_number, 2))
\* the two bytes of every sequence number, in list order
NakList(packets_to_nak) ==
    [i \in 1..(2 * Len(packets_to_nak)) |->
        to_bigendian(packets_to_nak[(i + 1) \div 2], 2)[2 - (i % 2)]]

\* make_nak(packet_type, packets_to_nak) followed by set_sequence_number;
\* packets_to_nak holds the sequence numbers of the packets.  Only a TC NAK
\* carries the count and the list; a TM NAK is the NAK code alone.  The
\* count is appended to an array('B'): for a list of more than 255 packets
\* spp_data.append(len(packets_to_nak)) raises OverflowError, no packet is
\* returned and the sequence number is never set; the packet make_nak has
\* created by then is still unfilled.
make_nak(by, packet_type, packets_to_nak, sequence_number) ==
    IF packet_type = "TC" /\ ~ IsByte(Len(packets_to_nak))
    THEN [raised |-> TRUE, packet |-> NoPacket]
    ELSE [raised |-> FALSE,
          packet |->
            [by |-> by, kind |-> packet_type,
             spp_data |-> IF packet_type = "TC"
                          THEN IF Len(packets_to_nak) > 0
                               THEN << 6, Len(packets_to_nak) >>
                                    \o NakList(packets_to_nak)
                               ELSE << 6, 0 >>
                          ELSE << 6 >>,
             sequence_number |-> sequence_number, simulated_error |-> FALSE]]

\* the CEASE_XMIT built on retry exhaustion
make_cease(by, sequence_number) == TcPacket(by, << 127 >>, sequence_number)

\* SppPacket.transmit: the packet object after the call and what the radio
\* is given.  random is random.random() < uplink_simulated_error_rate; when
\* it is TRUE and the packet is no OA packet (packet_type != 0) the packet
\* is marked simulated_error and len(ax25_packet) - 17 bytes 0xFF go to the
\* radio in place of the frame, while q_display_packet gets the frame
transmit(p, random) ==
    [p EXCEPT !.simulated_error = @ \/ (random /\ p.kind # "OA")]

(***************************************************************************)
(* State                                                                   *)
(***************************************************************************)
VARIABLES
    ground_sequence_number,               \* next TC sequence number
    expected_spacecraft_sequence_number,  \* next TM sequence number expected
    tc_packets_waiting_for_ack,           \* TC packets sent and not answered
    tm_packets_to_ack,                    \* sequence numbers of TM packets to ACK
    tm_packets_to_nak,                    \* sequence numbers of TM packets to NAK
    retry_count,                          \* local of process_received, -1 = idle
    dump_mode,
    downlink_payloads_pending,
    tm_packet_window,                     \* SppPacket.tm_packet_window
    process_thread,                       \* "running", or "dead" after an exception
    radio_tx,                             \* packets transmitted by the last step
    task,                                 \* the task that took the last step
    rx,                                   \* what the last loop iteration received
    tick,                                 \* flips on every loop iteration
    n_commands,                           \* process_command calls so far
    n_frames,                             \* frames taken from q_receive_packet so far
    ep,                                   \* bookkeeping since the last operator command
    armed_naks,                           \* NAKs built since retry_count was last armed
    gui,                                  \* process_command: position and locals
    ctl,                                  \* process_received: position and locals
    codec                                 \* subject of the codec checks

vars == << ground_sequence_number, expected_spacecraft_sequence_number,
           tc_packets_waiting_for_ack, tm_packets_to_ack, tm_packets_to_nak,
           retry_count, dump_mode, downlink_payloads_pending, tm_packet_window,
           process_thread, radio_tx, task, rx, tick, n_commands, n_frames,
           ep, armed_naks, gui, ctl, codec >>

arq_vars == << ground_sequence_number, expected_spacecraft_sequence_number,
               tc_packets_waiting_for_ack, tm_packets_to_ack, tm_packets_to_nak,
               retry_count, dump_mode, downlink_payloads_pending, tm_packet_window,
               process_thread, radio_tx, task, rx, tick, n_commands, n_frames,
               ep, armed_naks, gui, ctl >>

(***************************************************************************)
(* process_received: the pieces of one loop iteration                      *)
(***************************************************************************)
\* the frame handed to parse_ax25: short frames are zero-padded to 48 bytes
PadTo48(ax25_packet) ==
    IF Len(ax25_packet) < 48
    THEN ax25_packet \o Zeros(48 - Len(ax25_packet))
    ELSE ax25_packet

\* variant: the counter is armed one higher
RetryArmOneMore(rc) == IF rc < 0 THEN max_retries + 2 ELSE rc

\* MAC failure: the first failure since idle arms the retry counter
RetryArm(rc) == IF rc < 0 THEN max_retries + 1 ELSE rc

\* MAC failure: the packet is remembered for the next NAK unless dumping
NakAppend(dump, to_nak, sequence_number) ==
    IF ~ dump THEN Append(to_nak, sequence_number) ELSE to_nak

\* the command codes process_received acts on
DispatchedCommands == { 5, 6, 1, 2, 3, 8, 12, 14 }

\* the branch of the loop body the parsed frame tm takes: the MAC-failure
\* branch, one of the branches of the dispatch on tm_packet.command, or none
\* of them ("ignored": command 0xFF or a code without a branch); "raised"
\* when parse_ax25 left by an exception
Branch(tm) ==
    IF tm.raised THEN "raised"
    ELSE IF tm.validation_mask # 0 /\ tm.command # 255 THEN "mac_failure"
    ELSE CASE tm.command = COMMAND_CODES.ACK -> "ACK"
           [] tm.command = COMMAND_CODES.NAK -> "NAK"
           [] tm.command = COMMAND_CODES.XMIT_COUNT -> "XMIT_COUNT"
           [] tm.command = COMMAND_CODES.XMIT_HEALTH -> "XMIT_HEALTH"
           [] tm.command = COMMAND_CODES.XMIT_SCIENCE -> "XMIT_SCIENCE"
           [] tm.command = COMMAND_CODES.READ_MEM -> "READ_MEM"
           [] tm.command = COMMAND_CODES.GET_COMMS -> "GET_COMMS"
           [] tm.command = COMMAND_CODES.MAC_TEST -> "MAC_TEST"
           [] OTHER -> "ignored"

\* the branches that start with tc_packets_waiting_for_ack = [] and
\* expected_spacecraft_sequence_number = sn_increment(tm_packet.sequence_number)
AnsweredBranches ==
    { "ACK", "XMIT_COUNT", "XMIT_HEALTH", "XMIT_SCIENCE", "READ_MEM",
      "GET_COMMS", "MAC_TEST" }

\* the branches that end with do_transmit_packet = True,
\* downlink_complete = True and tm_packets_to_ack.append(tm_packet)
ReplyBranches == { "XMIT_COUNT", "READ_MEM", "GET_COMMS" }

\* the branches that count payloads
PayloadBranches == { "XMIT_HEALTH", "XMIT_SCIENCE" }

\* payloads a packet of the branch takes from downlink_payloads_pending
PayloadsPerPacket(branch) ==
    IF branch = "XMIT_HEALTH" THEN health_payloads_per_packet
    ELSE science_payloads_per_packet

\* variant: the window is flushed one packet late
FlushDueLate(to_ack, to_nak, window, downlink_complete) ==
    (Len(to_ack) + Len(to_nak) > window) \/ downlink_complete

\* the window is flushed when it is full or the downlink is complete
FlushDue(to_ack, to_nak, window, downlink_complete) ==
    (Len(to_ack) + Len(to_nak) >= window) \/ downlink_complete

\* the window flush from its first statement to
\* tc_packet.set_sequence_number(ground_sequence_number): which packet it
\* builds, with the ground_sequence_number it reads, and the retry counter
\* at that point.  The ACK resets the counter before it is built; on retry
\* exhaustion the counter is 0 while the CEASE_XMIT is transmitted.  When
\* make_nak raises, the counter has been stepped and no packet is built
\* (flush "raised").
WindowFlush(to_nak, rc, gsn) ==
    IF Len(to_nak) > 0
    THEN IF rc - 1 = 0
         THEN [flush |-> "cease", rc |-> 0,
               packet |-> make_cease("process_received", gsn)]
         ELSE [flush |-> IF make_nak("process_received", "TC", to_nak, gsn).raised
                         THEN "raised" ELSE "nak",
               rc |-> rc - 1,
               packet |-> make_nak("process_received", "TC", to_nak, gsn).packet]
    ELSE [flush |-> "ack", rc |-> -1,
          packet |-> make_ack("process_received", "TC", gsn)]

\* the end of the window flush, after the store of ground_sequence_number:
\* on retry exhaustion the counter is reset and the loop continues before
\* the lists are cleared
FlushEnd(flush, rc, to_ack, to_nak) ==
    IF flush = "cease"
    THEN [rc |-> -1, to_ack |-> to_ack, to_nak |-> to_nak]
    ELSE [rc |-> rc, to_ack |-> << >>, to_nak |-> << >>]

\* variant: the list is retransmitted back to front
RetransmittedReversed(packets, idx) ==
    [packets[Len(packets) + 1 - idx] EXCEPT !.by = "retransmit"]

\* the idx-th packet of the list as the for loop of the NAK branch hands it
\* to transmit
Retransmitted(packets, idx) == [packets[idx] EXCEPT !.by = "retransmit"]

\* process_received puts the frame on q_display_packet unless its command
\* is 0xFF
Displayed(tm) == tm.command # 255

\* tm_packet after tm_packet.parse_ax25(ax25_packet) in process_received
ReceivedPacket(ax25_in) ==
    parse_ax25(PadTo48(ax25_in), 8, sc_mac_key, ground_maxsize_packets)

(***************************************************************************)
(* process_command                                                         *)
(***************************************************************************)
\* the labels whose command is built without the argument dialog
PlainLabels == { "CEASE_XMIT", "NOOP", "XMIT_COUNT", "XMIT_HEALTH",
                 "GET_COMMS", "MAC_TEST" }

\* the labels that run the argument dialog (dialog1_run)
DialogLabels == { "RESET", "XMIT_SCIENCE", "READ_MEM", "WRITE_MEM",
                  "SET_COMMS", "SET_MODE" }

OaLabels == { "PING_RETURN", "RADIO_RESET", "PIN_TOGGLE" }

RECURSIVE BigendianAll(_)
BigendianAll(args) ==
    IF args = << >> THEN << >>
    ELSE to_bigendian(Head(args), 2) \o BigendianAll(Tail(args))

\* tc_data of the command a button builds from the dialog's nine arguments:
\* the array when the branch is through with it, and whether an append
\* raised OverflowError on the way (the array then holds what was appended
\* before).  XMIT_SCIENCE appends args[0] and SET_COMMS args[7] as they
\* are; the other arguments are masked or go through to_bigendian.
tc_data(button_label, args) ==
    LET whole(data) == [raised |-> FALSE, data |-> data]
        set_comms == << 11, Max(1, Min(args[1], 20)),
                        args[2] % 256, args[3] % 256, args[4] % 256 >>
                     \o to_bigendian(args[5], 2) \o to_bigendian(args[6], 2)
                     \o to_bigendian(args[7], 2)
    IN  CASE button_label = "CEASE_XMIT"   -> whole(<< 127 >>)
          [] button_label = "NOOP"         -> whole(<< 9 >>)
          [] button_label = "RESET"        -> whole(<< 4 >> \o to_bigendian(args[1], 2))
          [] button_label = "XMIT_COUNT"   -> whole(<< 1 >>)
          [] button_label = "XMIT_HEALTH"  -> whole(<< 2, 1 >>)
          [] button_label = "XMIT_SCIENCE" ->
                IF IsByte(args[1]) THEN whole(<< 3, args[1] >>)
                ELSE [raised |-> TRUE, data |-> << 3 >>]
          [] button_label = "READ_MEM"     ->
                whole(<< 8 >> \o to_bigendian(args[1], 2) \o to_bigendian(args[2], 2))
          [] button_label = "WRITE_MEM"    -> whole(<< 7 >> \o BigendianAll(args))
          [] button_label = "SET_COMMS"    ->
                IF IsByte(args[8]) THEN whole(set_comms \o << args[8] >>)
                ELSE [raised |-> TRUE, data |-> set_comms]
          [] button_label = "GET_COMMS"    -> whole(<< 12 >>)
          [] button_label = "SET_MODE"     -> whole(<< 10, args[1] % 256 >>)
          [] button_label = "MAC_TEST"     -> whole(<< 14 >>)
          [] OTHER -> whole(<< >>)

\* the OA commands take a sequence number as well
CommandFlagsOaCounted(button_label, args, dialog1_xmit) ==
    LET sequenced == \/ button_label \in PlainLabels
                     \/ (button_label \in DialogLabels /\ dialog1_xmit)
    IN  [do_transmit_packet |-> sequenced \/ button_label \in OaLabels,
         do_sn_increment |-> sequenced \/ button_label \in OaLabels,
         expect_ack |-> /\ sequenced
                        /\ ~ (button_label = "XMIT_SCIENCE" /\ args[1] = 255)]

\* the three flags a button press ends with when its branch runs to its end
CommandFlags(button_label, args, dialog1_xmit) ==
    LET sequenced == \/ button_label \in PlainLabels
                     \/ (button_label \in DialogLabels /\ dialog1_xmit)
    IN  [do_transmit_packet |-> sequenced \/ button_label \in OaLabels,
         do_sn_increment |-> sequenced,
         expect_ack |-> /\ sequenced
                        /\ ~ (button_label = "XMIT_SCIENCE" /\ args[1] = 255)]

\* downlink_payloads_pending after the branch of the button has written it
CommandPending(button_label, args, dialog1_xmit, pending) ==
    CASE button_label = "XMIT_HEALTH" -> 1 * health_payloads_per_packet
      [] button_label = "XMIT_SCIENCE" /\ dialog1_xmit ->
            IF args[1] = 255 THEN 255 ELSE args[1] * science_payloads_per_packet
      [] OTHER -> pending

\* dump_mode after the branch of the button has written it
CommandDump(button_label, args, dialog1_xmit, dump) ==
    CASE button_label = "XMIT_HEALTH" -> FALSE
      [] button_label = "XMIT_SCIENCE" /\ dialog1_xmit -> (args[1] = 255)
      [] OTHER -> dump

\* SppPacket.tm_packet_window after the branch of the button has written it
CommandWindow(button_label, args, dialog1_xmit, window) ==
    IF button_label = "SET_COMMS" /\ dialog1_xmit
    THEN Max(1, Min(args[1], 20)) ELSE window

\* the packet a button press transmits
CommandPacket(button_label, args, gsn) ==
    IF button_label \in OaLabels
    THEN OaPacket("process_command", COMMAND_CODES[button_label])
    ELSE TcPacket("process_command", tc_data(button_label, args).data, gsn)

(***************************************************************************)
(* Bounds and input sets                                                   *)
(***************************************************************************)
\* operator commands per run
MaxCommands == 1

\* frames received per run
MaxFrames == 2

\* GPS time stamped on the frames of the model (week, 1e-7 s of week)
FrameWeek == 2024

FrameSow == 1234567

\* sequence numbers carried by received frames
FrameSeqNums == { 65535 }

\* ground_sequence_number at start-up
StartSeqNums == { 1 }

\* packet counts the operator enters for XMIT_SCIENCE (255 = dump)
ScienceCounts == { 1, 255 }

\* window sizes the operator enters for SET_COMMS (clamped to 1..20)
WindowArgs == { 0, 25 }

\* what dialog1_run returns for the dialog of button_label when the operator
\* types first into the first entry and leaves the other entries at the
\* defaults the branch gives them.  A command without a dialog reads no
\* args; its inputs carry the zeros.
DialogArgs(button_label, first) ==
    CASE button_label = "SET_COMMS" -> << first, 4, 5, 2, 0, 0, 1000, 125, 0 >>
      [] button_label \in { "READ_MEM", "WRITE_MEM" } ->
            << first, 243, 0, 0, 0, 0, 0, 0, 0 >>
      [] OTHER -> << first, 0, 0, 0, 0, 0, 0, 0, 0 >>

\* an entry holds text that is not a number: int() raises ValueError in
\* dialog1_run and process_command is left before it has written anything.
\* The input carries no args.
DialogRaises(c) == c.button_label \in DialogLabels /\ c.args = << >>

\* numbers the operator can type that do not fit a byte
OverflowArgs == { -1, 256 }

CommandInputs ==
    { [button_label |-> l, args |-> DialogArgs(l, 0), dialog1_xmit |-> TRUE] :
        l \in PlainLabels \cup OaLabels \cup { "LOAD" } }
    \cup { [button_label |-> l, args |-> DialogArgs(l, a), dialog1_xmit |-> x] :
             l \in { "RESET", "SET_MODE" }, a \in { 2 }, x \in BOOLEAN }
    \cup { [button_label |-> l, args |-> DialogArgs(l, 240), dialog1_xmit |-> x] :
             l \in { "READ_MEM", "WRITE_MEM" }, x \in BOOLEAN }
    \cup { [button_label |-> "XMIT_SCIENCE", args |-> DialogArgs("XMIT_SCIENCE", a),
            dialog1_xmit |-> x] : a \in ScienceCounts, x \in BOOLEAN }
    \cup { [button_label |-> "XMIT_SCIENCE", args |-> DialogArgs("XMIT_SCIENCE", a),
            dialog1_xmit |-> TRUE] : a \in OverflowArgs }
    \cup { [button_label |-> "SET_COMMS", args |-> DialogArgs("SET_COMMS", a),
            dialog1_xmit |-> x] : a \in WindowArgs, x \in BOOLEAN }
    \cup { [button_label |-> "SET_COMMS",
            args |-> [DialogArgs("SET_COMMS", 3) EXCEPT ![8] = a],
            dialog1_xmit |-> TRUE] : a \in OverflowArgs }
    \cup { [button_label |-> "SET_COMMS", args |-> << >>, dialog1_xmit |-> FALSE] }

\* a telemetry frame as the spacecraft builds it, signed with key
TmFrame(sequence_number, spp_data, key) ==
    ax25_wrap(sc_ax25_header, 8,
              spp_wrap(8, FrameWeek, FrameSow, sequence_number, spp_data, key),
              ground_maxsize_packets)

\* data of the replies: ACK, NAK, XMIT_COUNT (complete and truncated),
\* XMIT_HEALTH, XMIT_SCIENCE, GET_COMMS, NOOP and the timeout marker
ReplyData == { << 5 >>, << 6 >>, << 1, 0, 3, 0, 2 >>, << 1 >>, << 2, 1 >>,
               << 3, 1 >>, << 12, 0 >>, << 9 >>, << 255 >> }

\* frames that pass the MAC check
ValidFrames == { TmFrame(sn, d, sc_mac_key) : sn \in FrameSeqNums, d \in ReplyData }

\* frames whose trailer was not computed with the spacecraft key
MacFailedFrames ==
    { TmFrame(sn, d, gs_mac_key) : sn \in FrameSeqNums, d \in { << 3, 1 >>, << 255 >> } }

\* a frame whose control and PID bytes are not 0x03 0xF0, with byte 32 = b
NonSppFrame(b) ==
    [sc_ax25_header EXCEPT ![15] = 0, ![16] = 0] \o Zeros(16) \o << b >>

\* an open-access frame
OaFrame(command) == sc_ax25_header \o oa_key \o << command >>

\* a frame that declares the SPP length n and is cut after the length field
TruncatedFrame(n) == sc_ax25_header \o << 8 >> \o to_bigendian(n, 2)

OtherFrames == { NonSppFrame(5), NonSppFrame(3), OaFrame(49), TruncatedFrame(20) }

Frames == ValidFrames \cup MacFailedFrames \cup OtherFrames

\* replies of the spacecraft to XMIT_COUNT, READ_MEM, GET_COMMS and MAC_TEST
CommandReplyData ==
    { << 1, 0, 3, 0, 2 >>, << 8, 0, 240, 1, 2 >>, << 12, 0 >>, << 14 >> }

CommandReplyFrames ==
    { TmFrame(sn, d, sc_mac_key) : sn \in { 1, 65535 }, d \in CommandReplyData }

\* Frames whose SPP length field does not fit the bytes present: declared
\* lengths for which the payload slice ends before the end of the buffer
\* counted from the back (0, 11), is empty (12..27), holds one byte (28) or
\* more, and runs far beyond the bytes present
LengthFields == { 0, 11, 12, 20, 27, 28, 29, 31, 300, 65535 }

\* bytes present after the length field
BodyLengths == { 0, 13, 29, 45 }

LengthFrames ==
    { sc_ax25_header \o << 8 >> \o to_bigendian(n, 2) \o [i \in 1..k |-> b] :
        n \in LengthFields, k \in BodyLengths, b \in { 7, 255 } }

\* the parse of every frame of the model, tabulated once
Parsed ==
    [f \in Frames \cup CommandReplyFrames \cup LengthFrames \cup { ax25_badpacket } |->
        ReceivedPacket(f)]

(***************************************************************************)
(* Initial state (main, before the threads start)                          *)
(***************************************************************************)
NoEpoch ==
    [cmd |-> "none", requested |-> 0, window |-> 1, idle_start |-> FALSE,
     ceased |-> FALSE, after_cease |-> FALSE,
     good |-> 0, bad |-> 0, other |-> 0,
     acks |-> 0, naks |-> 0, ceases |-> 0,
     active |-> FALSE, dl_naks |-> 0, overlap |-> FALSE]

\* no button is being handled
NoCommand == [button_label |-> "none", args |-> << >>, dialog1_xmit |-> FALSE]

\* process_command is not running: the GTK main loop waits for a button
GuiIdle ==
    [pc |-> "idle", c |-> NoCommand, packet |-> NoPacket, read |-> 0,
     flags |-> [do_transmit_packet |-> FALSE, do_sn_increment |-> FALSE,
                expect_ack |-> FALSE]]

\* process_received waits in q_receive_packet.get.  marked remembers, for
\* the packet the NAK branch has fetched, the simulated_error its last
\* transmission left on it.
CtlIdle ==
    [pc |-> "idle", branch |-> "none", sequence_number |-> 0,
     downlink_complete |-> FALSE, packet |-> NoPacket, read |-> 0,
     flush |-> "none", idx |-> 0, marked |-> FALSE]

NoRx ==
    [event |-> "none", branch |-> "none", is_spp_packet |-> FALSE,
     validation_mask |-> 0]

NoCodec == [op |-> "none"]

\* the start-up values of everything but ground_sequence_number
InitOther ==
    /\ expected_spacecraft_sequence_number = 0
    /\ tc_packets_waiting_for_ack = << >>
    /\ tm_packets_to_ack = << >>
    /\ tm_packets_to_nak = << >>
    /\ retry_count = -1
    /\ dump_mode = FALSE
    /\ downlink_payloads_pending = 0
    /\ tm_packet_window = 1
    /\ process_thread = "running"
    /\ radio_tx = << >>
    /\ task = "main"
    /\ rx = NoRx
    /\ tick = 0
    /\ n_commands = 0
    /\ n_frames = 0
    /\ ep = NoEpoch
    /\ armed_naks = 0
    /\ gui = GuiIdle
    /\ ctl = CtlIdle

InitArq == ground_sequence_number \in StartSeqNums /\ InitOther

Init == InitArq /\ codec = NoCodec

(***************************************************************************)
(* Actions                                                                 *)
(***************************************************************************)
\* The two handlers run on two threads that share the globals without a
\* lock: process_command on the GTK main thread, process_received on its own
\* thread.  The interpreter can switch threads between any two bytecodes, so
\* each handler is a sequence of steps with one access to a shared variable
\* per step: a read or a write of ground_sequence_number,
\* tc_packets_waiting_for_ack, downlink_payloads_pending, dump_mode or
\* SppPacket.tm_packet_window, or a transmit().  What a handler does with
\* its locals, and process_received with the variables only it writes
\* (expected_spacecraft_sequence_number, tm_packets_to_ack,
\* tm_packets_to_nak, retry_count), belongs to the step of the shared access
\* before it.

\* the operator presses a button: process_command(button_label) from the
\* dialog to the first shared variable its branch touches.  XMIT_HEALTH and
\* XMIT_SCIENCE write downlink_payloads_pending, SET_COMMS writes
\* SppPacket.tm_packet_window (and is left by OverflowError when the
\* transmit power does not fit a byte), the other sequenced commands read
\* ground_sequence_number for set_sequence_number, the OA commands build
\* their packet.
ProcessCommand(c) ==
    LET flags == CommandFlags(c.button_label, c.args, c.dialog1_xmit)
        downlink == \/ c.button_label = "XMIT_HEALTH"
                    \/ (c.button_label = "XMIT_SCIENCE" /\ c.dialog1_xmit)
        set_comms == c.button_label = "SET_COMMS" /\ c.dialog1_xmit
        tc_packet == CommandPacket(c.button_label, c.args, ground_sequence_number)
        pending == CommandPending(c.button_label, c.args, c.dialog1_xmit,
                                  downlink_payloads_pending)
        window == CommandWindow(c.button_label, c.args, c.dialog1_xmit,
                                tm_packet_window)
        started == [GuiIdle EXCEPT !.c = c, !.flags = flags]
        built == /\ ~ DialogRaises(c) /\ ~ downlink /\ ~ set_comms
                 /\ flags.do_transmit_packet
    IN  /\ gui.pc = "idle"
        /\ radio_tx' = << >>
        /\ task' = "process_command"
        /\ n_commands' = n_commands + 1
        /\ IF DialogRaises(c)
           THEN UNCHANGED << downlink_payloads_pending, tm_packet_window, gui, ep >>
           ELSE /\ downlink_payloads_pending' = pending
                /\ tm_packet_window' = window
                /\ gui' = IF downlink THEN [started EXCEPT !.pc = "dump"]
                          ELSE IF set_comms
                          THEN IF tc_data(c.button_label, c.args).raised
                               THEN GuiIdle
                               ELSE [started EXCEPT !.pc = "build"]
                          ELSE IF flags.do_transmit_packet
                          THEN [started EXCEPT !.pc = "transmit",
                                               !.packet = tc_packet]
                          ELSE GuiIdle
                /\ ep' = IF flags.do_sn_increment
                         THEN [NoEpoch EXCEPT
                                 !.cmd = c.button_label,
                                 !.requested = IF c.button_label = "XMIT_HEALTH" THEN 1
                                               ELSE IF c.button_label = "XMIT_SCIENCE"
                                               THEN c.args[1] ELSE 0,
                                 !.window = window,
                                 !.idle_start = /\ retry_count = -1
                                                /\ tm_packets_to_ack = << >>
                                                /\ tm_packets_to_nak = << >>,
                                 !.after_cease = ep.ceased,
                                 !.active = downlink /\ pending > 0,
                                 !.overlap = ctl.pc # "idle"]
                         ELSE ep
        /\ codec' = IF codec.op = "race" /\ built
                    THEN [codec EXCEPT !.command = tc_packet, !.answered = FALSE]
                    ELSE codec
        /\ UNCHANGED << ground_sequence_number, tc_packets_waiting_for_ack,
                        expected_spacecraft_sequence_number, tm_packets_to_ack,
                        tm_packets_to_nak, retry_count, dump_mode, process_thread,
                        rx, tick, n_frames, armed_naks, ctl >>

\* process_command, XMIT_HEALTH and XMIT_SCIENCE: the store of dump_mode;
\* tc_data.append(args[0]) after it leaves the handler by OverflowError when
\* the packet count does not fit a byte
CommandDumpMode ==
    /\ gui.pc = "dump"
    /\ dump_mode' = CommandDump(gui.c.button_label, gui.c.args,
                                gui.c.dialog1_xmit, dump_mode)
    /\ gui' = IF tc_data(gui.c.button_label, gui.c.args).raised
              THEN GuiIdle
              ELSE [gui EXCEPT !.pc = "build"]
    /\ radio_tx' = << >>
    /\ task' = "process_command"
    /\ UNCHANGED << ground_sequence_number, tc_packets_waiting_for_ack,
                    expected_spacecraft_sequence_number, tm_packets_to_ack,
                    tm_packets_to_nak, retry_count,
                    downlink_payloads_pending, tm_packet_window, process_thread,
                    rx, tick, n_commands, n_frames, ep, armed_naks, ctl, codec >>

\* process_command, XMIT_HEALTH, XMIT_SCIENCE and SET_COMMS:
\* tc_packet.set_sequence_number(ground_sequence_number)
CommandBuild ==
    LET tc_packet == CommandPacket(gui.c.button_label, gui.c.args,
                                   ground_sequence_number)
    IN  /\ gui.pc = "build"
        /\ gui' = [gui EXCEPT !.pc = "transmit", !.packet = tc_packet]
        /\ radio_tx' = << >>
        /\ task' = "process_command"
        /\ codec' = IF codec.op = "race"
                    THEN [codec EXCEPT !.command = tc_packet, !.answered = FALSE]
                    ELSE codec
        /\ UNCHANGED << ground_sequence_number, tc_packets_waiting_for_ack,
                        expected_spacecraft_sequence_number, tm_packets_to_ack,
                        tm_packets_to_nak, retry_count, dump_mode,
                        downlink_payloads_pending, tm_packet_window,
                        process_thread, rx, tick, n_commands, n_frames, ep,
                        armed_naks, ctl >>

\* process_command: tc_packet.transmit()
CommandTransmit(random) ==
    /\ gui.pc = "transmit"
    /\ radio_tx' = << transmit(gui.packet, random) >>
    /\ task' = "process_command"
    /\ gui' = IF gui.flags.do_sn_increment
              THEN [gui EXCEPT !.pc = "read",
                               !.packet = transmit(gui.packet, random)]
              ELSE IF gui.flags.expect_ack
              THEN [gui EXCEPT !.pc = "append",
                               !.packet = transmit(gui.packet, random)]
              ELSE GuiIdle
    /\ codec' = IF codec.op = "race"
                THEN [codec EXCEPT !.sent = Append(@, transmit(gui.packet, random))]
                ELSE codec
    /\ UNCHANGED << ground_sequence_number, tc_packets_waiting_for_ack,
                    expected_spacecraft_sequence_number, tm_packets_to_ack,
                    tm_packets_to_nak, retry_count, dump_mode,
                    downlink_payloads_pending, tm_packet_window, process_thread,
                    rx, tick, n_commands, n_frames, ep, armed_naks, ctl >>

\* process_command: the read of ground_sequence_number for sn_increment
CommandRead ==
    /\ gui.pc = "read"
    /\ gui' = [gui EXCEPT !.pc = "write", !.read = ground_sequence_number]
    /\ radio_tx' = << >>
    /\ task' = "process_command"
    /\ UNCHANGED << ground_sequence_number, tc_packets_waiting_for_ack,
                    expected_spacecraft_sequence_number, tm_packets_to_ack,
                    tm_packets_to_nak, retry_count, dump_mode,
                    downlink_payloads_pending, tm_packet_window, process_thread,
                    rx, tick, n_commands, n_frames, ep, armed_naks, ctl, codec >>

\* process_command: the store ground_sequence_number = sn_increment(...)
CommandWrite ==
    /\ gui.pc = "write"
    /\ ground_sequence_number' = sn_increment(gui.read)
    /\ gui' = IF gui.flags.expect_ack
              THEN [gui EXCEPT !.pc = "append", !.read = 0]
              ELSE GuiIdle
    /\ radio_tx' = << >>
    /\ task' = "process_command"
    /\ UNCHANGED << tc_packets_waiting_for_ack,
                    expected_spacecraft_sequence_number, tm_packets_to_ack,
                    tm_packets_to_nak, retry_count, dump_mode,
                    downlink_payloads_pending, tm_packet_window, process_thread,
                    rx, tick, n_commands, n_frames, ep, armed_naks, ctl, codec >>

\* process_command: tc_packets_waiting_for_ack.append(tc_packet)
CommandAppend ==
    /\ gui.pc = "append"
    /\ tc_packets_waiting_for_ack' = Append(tc_packets_waiting_for_ack, gui.packet)
    /\ gui' = GuiIdle
    /\ radio_tx' = << >>
    /\ task' = "process_command"
    /\ UNCHANGED << ground_sequence_number,
                    expected_spacecraft_sequence_number, tm_packets_to_ack,
                    tm_packets_to_nak, retry_count, dump_mode,
                    downlink_payloads_pending, tm_packet_window, process_thread,
                    rx, tick, n_commands, n_frames, ep, armed_naks, ctl, codec >>

\* the MAC-valid frame tm is the spacecraft's reply to the command tc_packet:
\* the telemetry of the same command code, or an ACK for a command that asks
\* for no telemetry
Answers(tm, tc_packet) ==
    /\ ~ tm.raised
    /\ tm.is_spp_packet
    /\ tm.validation_mask = 0
    /\ \/ tm.command = tc_packet.spp_data[1]
       \/ /\ tm.command = COMMAND_CODES.ACK
          /\ tc_packet.spp_data[1] \notin { 1, 2, 3, 8, 12, 14 }

\* the iteration of process_received has come to its end: the downlink the
\* bookkeeping follows is over when no payload is pending any more
IterationEnd(e, pending) == [e EXCEPT !.active = @ /\ pending > 0]

\* process_received takes the frame ax25_in from q_receive_packet (event
\* "frame") or the bad packet after a timeout (event "timeout"), parses it
\* and enters the branch of the frame, up to the next shared access after
\* the first.  The MAC-failure branch reads dump_mode and is done; the
\* answered branches clear tc_packets_waiting_for_ack, and those that stop
\* there (ACK, MAC_TEST) are done, do_transmit_packet being False; the NAK
\* branch fetches the first packet of tc_packets_waiting_for_ack.
\* from_bigendian raises IndexError in the XMIT_COUNT branch when the
\* counters are missing.
LoopIteration(ax25_in, event) ==
    LET tm == Parsed[ax25_in]
        branch == Branch(tm)
        mac_failure == branch = "mac_failure"
        answered == branch \in AnsweredBranches
        count_raises == branch = "XMIT_COUNT" /\ Len(tm.spp_data) < 5
        reply == branch \in ReplyBranches /\ ~ count_raises
        thread == IF branch = "raised" \/ count_raises THEN "dead" ELSE "running"
        dispatched == tm.command \in DispatchedCommands
        reported == IF branch = "raised" \/ count_raises THEN "raised"
                    ELSE IF mac_failure THEN "mac_failure"
                    ELSE IF dispatched THEN "dispatched" ELSE "ignored"
        is_bad == reported = "mac_failure"
        is_good == /\ reported = "dispatched"
                   /\ tm.is_spp_packet
                   /\ ep.cmd \in { "XMIT_HEALTH", "XMIT_SCIENCE" }
                   /\ tm.command = COMMAND_CODES[ep.cmd]
        counted == event = "frame"
        entered == [CtlIdle EXCEPT !.branch = branch,
                                   !.sequence_number = tm.sequence_number]
    IN  /\ process_thread = "running"
        /\ ctl.pc = "idle"
        /\ tc_packets_waiting_for_ack' =
              IF answered THEN << >> ELSE tc_packets_waiting_for_ack
        /\ expected_spacecraft_sequence_number' =
              IF mac_failure THEN sn_increment(expected_spacecraft_sequence_number)
              ELSE IF answered THEN sn_increment(tm.sequence_number)
              ELSE expected_spacecraft_sequence_number
        /\ retry_count' = IF mac_failure THEN RetryArm(retry_count) ELSE retry_count
        /\ tm_packets_to_nak' =
              IF mac_failure
              THEN NakAppend(dump_mode, tm_packets_to_nak,
                             expected_spacecraft_sequence_number)
              ELSE tm_packets_to_nak
        /\ tm_packets_to_ack' =
              IF reply THEN Append(tm_packets_to_ack, tm.sequence_number)
              ELSE tm_packets_to_ack
        /\ process_thread' = thread
        /\ ctl' = IF branch \in PayloadBranches
                  THEN [entered EXCEPT !.pc = "pending_read"]
                  ELSE IF reply
                  THEN [entered EXCEPT !.pc = "flush_check",
                                       !.downlink_complete = TRUE]
                  ELSE IF branch = "NAK" /\ Len(tc_packets_waiting_for_ack) > 0
                  THEN [entered EXCEPT
                          !.pc = "retransmit", !.idx = 1,
                          !.downlink_complete = TRUE,
                          !.packet = Retransmitted(tc_packets_waiting_for_ack, 1),
                          !.marked = tc_packets_waiting_for_ack[1].simulated_error]
                  ELSE CtlIdle
        /\ radio_tx' = << >>
        /\ task' = "process_received"
        /\ tick' = 1 - tick
        /\ n_frames' = IF counted THEN n_frames + 1 ELSE n_frames
        /\ rx' = [event |-> event, branch |-> reported,
                  is_spp_packet |-> tm.is_spp_packet,
                  validation_mask |-> tm.validation_mask]
        /\ ep' = [ep EXCEPT
                    !.good = IF counted /\ is_good THEN @ + 1 ELSE @,
                    !.bad = IF counted /\ is_bad THEN @ + 1 ELSE @,
                    !.other = IF counted /\ ~ is_good /\ ~ is_bad THEN @ + 1 ELSE @,
                    !.ceased = IF counted THEN FALSE ELSE @,
                    !.overlap = @ \/ (counted /\ gui.pc # "idle")]
        /\ armed_naks' = IF mac_failure /\ retry_count < 0 THEN 0 ELSE armed_naks
        /\ codec' = IF /\ codec.op = "race"
                       /\ codec.command # NoPacket
                       /\ gui.pc # "transmit"
                       /\ reported = "dispatched"
                       /\ Answers(tm, codec.command)
                    THEN [codec EXCEPT !.answered = TRUE]
                    ELSE IF codec.op = "queued"
                    THEN [codec EXCEPT !.op = "parsed", !.raised = tm.raised,
                                       !.thread = thread]
                    ELSE codec
        /\ UNCHANGED << ground_sequence_number, dump_mode,
                        downlink_payloads_pending, tm_packet_window,
                        n_commands, gui >>

\* a frame arrives on q_receive_packet within ack_timeout
ProcessReceived(ax25_packet) == LoopIteration(ax25_packet, "frame")

\* q_receive_packet.get raises Empty after ack_timeout
Timeout == LoopIteration(ax25_badpacket, "timeout")

\* receive_packet has queued None because the socket closed: process_received
\* prints 'Socket closed' and calls exit(1), which ends its thread
SocketClosed ==
    /\ process_thread = "running"
    /\ ctl.pc = "idle"
    /\ process_thread' = "exited"
    /\ task' = "process_received"
    /\ radio_tx' = << >>
    /\ rx' = [NoRx EXCEPT !.event = "closed"]
    /\ UNCHANGED << ground_sequence_number, tc_packets_waiting_for_ack,
                    expected_spacecraft_sequence_number, tm_packets_to_ack,
                    tm_packets_to_nak, retry_count, dump_mode,
                    downlink_payloads_pending, tm_packet_window, tick,
                    n_commands, n_frames, ep, armed_naks, gui, ctl, codec >>

\* the NAK branch, the first statement of the body of the for loop:
\* p.simulated_error = False for the packet p the loop has fetched, which
\* is the member ctl.idx of tc_packets_waiting_for_ack.  The mark of an
\* earlier transmission is gone from the list before p.transmit() is
\* entered, where the thread first sleeps for the turnaround time.
RetransmitClear ==
    /\ ctl.pc = "retransmit"
    /\ tc_packets_waiting_for_ack' =
          [tc_packets_waiting_for_ack EXCEPT
             ![ctl.idx] = [@ EXCEPT !.simulated_error = FALSE]]
    /\ ctl' = [ctl EXCEPT !.pc = "sleep",
                          !.packet = [@ EXCEPT !.simulated_error = FALSE]]
    /\ radio_tx' = << >>
    /\ task' = "process_received"
    /\ UNCHANGED << ground_sequence_number,
                    expected_spacecraft_sequence_number, tm_packets_to_ack,
                    tm_packets_to_nak, retry_count, dump_mode,
                    downlink_payloads_pending, tm_packet_window, process_thread,
                    rx, tick, n_commands, n_frames, ep, armed_naks, gui, codec >>

\* the NAK branch, p.transmit() after its sleep: the draw of the error
\* simulation, the mark it leaves on p, which is the member ctl.idx of
\* tc_packets_waiting_for_ack, and the hand-over to the radio
Retransmit(random) ==
    LET p == transmit(ctl.packet, random)
    IN  /\ ctl.pc = "sleep"
        /\ radio_tx' = << p >>
        /\ tc_packets_waiting_for_ack' =
              [tc_packets_waiting_for_ack EXCEPT
                 ![ctl.idx] = [@ EXCEPT !.simulated_error = p.simulated_error]]
        /\ task' = "process_received"
        /\ ctl' = [ctl EXCEPT !.pc = "fetch", !.packet = p]
        /\ codec' = IF codec.op = "race"
                    THEN [codec EXCEPT !.sent = Append(@, p)] ELSE codec
        /\ UNCHANGED << ground_sequence_number,
                        expected_spacecraft_sequence_number, tm_packets_to_ack,
                        tm_packets_to_nak, retry_count, dump_mode,
                        downlink_payloads_pending, tm_packet_window,
                        process_thread, rx, tick, n_commands, n_frames, ep,
                        armed_naks, gui >>

\* the NAK branch, for p in tc_packets_waiting_for_ack after a pass of the
\* body: the loop fetches the next packet of the list as it is by now, a
\* command appended during the transmission included, or ends behind the
\* last one, which ends the iteration (do_transmit_packet is False)
RetransmitNext ==
    /\ ctl.pc = "fetch"
    /\ ctl' = IF ctl.idx < Len(tc_packets_waiting_for_ack)
              THEN [ctl EXCEPT
                      !.pc = "retransmit",
                      !.idx = @ + 1,
                      !.packet = Retransmitted(tc_packets_waiting_for_ack,
                                               ctl.idx + 1),
                      !.marked =
                         tc_packets_waiting_for_ack[ctl.idx + 1].simulated_error]
              ELSE CtlIdle
    /\ radio_tx' = << >>
    /\ task' = "process_received"
    /\ UNCHANGED << ground_sequence_number, tc_packets_waiting_for_ack,
                    expected_spacecraft_sequence_number, tm_packets_to_ack,
                    tm_packets_to_nak, retry_count, dump_mode,
                    downlink_payloads_pending, tm_packet_window, process_thread,
                    rx, tick, n_commands, n_frames, ep, armed_naks, gui, codec >>

\* XMIT_HEALTH / XMIT_SCIENCE: the read of downlink_payloads_pending in
\* downlink_payloads_pending = downlink_payloads_pending - ..._per_packet
PayloadsRead ==
    /\ ctl.pc = "pending_read"
    /\ ctl' = [ctl EXCEPT !.pc = "pending_write",
                          !.read = downlink_payloads_pending]
    /\ radio_tx' = << >>
    /\ task' = "process_received"
    /\ UNCHANGED << ground_sequence_number, tc_packets_waiting_for_ack,
                    expected_spacecraft_sequence_number, tm_packets_to_ack,
                    tm_packets_to_nak, retry_count, dump_mode,
                    downlink_payloads_pending, tm_packet_window, process_thread,
                    rx, tick, n_commands, n_frames, ep, armed_naks, gui, codec >>

\* XMIT_HEALTH / XMIT_SCIENCE: the store of the difference
PayloadsWrite ==
    /\ ctl.pc = "pending_write"
    /\ downlink_payloads_pending' = ctl.read - PayloadsPerPacket(ctl.branch)
    /\ ctl' = [ctl EXCEPT !.pc = "pending_test", !.read = 0]
    /\ radio_tx' = << >>
    /\ task' = "process_received"
    /\ UNCHANGED << ground_sequence_number, tc_packets_waiting_for_ack,
                    expected_spacecraft_sequence_number, tm_packets_to_ack,
                    tm_packets_to_nak, retry_count, dump_mode,
                    tm_packet_window, process_thread,
                    rx, tick, n_commands, n_frames, ep, armed_naks, gui, codec >>

\* XMIT_HEALTH / XMIT_SCIENCE: if downlink_payloads_pending <= 0
PayloadsTest ==
    /\ ctl.pc = "pending_test"
    /\ ctl' = [ctl EXCEPT !.pc = IF downlink_payloads_pending <= 0
                                 THEN "pending_zero" ELSE "dump_read"]
    /\ radio_tx' = << >>
    /\ task' = "process_received"
    /\ UNCHANGED << ground_sequence_number, tc_packets_waiting_for_ack,
                    expected_spacecraft_sequence_number, tm_packets_to_ack,
                    tm_packets_to_nak, retry_count, dump_mode,
                    downlink_payloads_pending, tm_packet_window, process_thread,
                    rx, tick, n_commands, n_frames, ep, armed_naks, gui, codec >>

\* XMIT_HEALTH / XMIT_SCIENCE: downlink_payloads_pending = 0 and
\* downlink_complete = True
PayloadsZero ==
    /\ ctl.pc = "pending_zero"
    /\ downlink_payloads_pending' = 0
    /\ ctl' = [ctl EXCEPT !.pc = "dump_read", !.downlink_complete = TRUE]
    /\ radio_tx' = << >>
    /\ task' = "process_received"
    /\ UNCHANGED << ground_sequence_number, tc_packets_waiting_for_ack,
                    expected_spacecraft_sequence_number, tm_packets_to_ack,
                    tm_packets_to_nak, retry_count, dump_mode,
                    tm_packet_window, process_thread,
                    rx, tick, n_commands, n_frames, ep, armed_naks, gui, codec >>

\* XMIT_HEALTH / XMIT_SCIENCE: do_transmit_packet = True and
\* if not dump_mode: tm_packets_to_ack.append(tm_packet)
PayloadsAppend ==
    /\ ctl.pc = "dump_read"
    /\ tm_packets_to_ack' = IF ~ dump_mode
                            THEN Append(tm_packets_to_ack, ctl.sequence_number)
                            ELSE tm_packets_to_ack
    /\ ctl' = [ctl EXCEPT !.pc = "flush_check"]
    /\ radio_tx' = << >>
    /\ task' = "process_received"
    /\ UNCHANGED << ground_sequence_number, tc_packets_waiting_for_ack,
                    expected_spacecraft_sequence_number,
                    tm_packets_to_nak, retry_count, dump_mode,
                    downlink_payloads_pending, tm_packet_window, process_thread,
                    rx, tick, n_commands, n_frames, ep, armed_naks, gui, codec >>

\* if do_transmit_packet and (not dump_mode), for a branch that has set
\* do_transmit_packet: in dump mode the iteration ends here
FlushCheck ==
    /\ ctl.pc = "flush_check"
    /\ ctl' = IF ~ dump_mode THEN [ctl EXCEPT !.pc = "window_check"] ELSE CtlIdle
    /\ ep' = IF ~ dump_mode THEN ep ELSE IterationEnd(ep, downlink_payloads_pending)
    /\ radio_tx' = << >>
    /\ task' = "process_received"
    /\ UNCHANGED << ground_sequence_number, tc_packets_waiting_for_ack,
                    expected_spacecraft_sequence_number, tm_packets_to_ack,
                    tm_packets_to_nak, retry_count, dump_mode,
                    downlink_payloads_pending, tm_packet_window, process_thread,
                    rx, tick, n_commands, n_frames, armed_naks, gui, codec >>

\* the flush condition, with its read of SppPacket.tm_packet_window: the
\* iteration ends here unless the window is full or the downlink complete
WindowCheck ==
    LET due == FlushDue(tm_packets_to_ack, tm_packets_to_nak, tm_packet_window,
                        ctl.downlink_complete)
    IN  /\ ctl.pc = "window_check"
        /\ ctl' = IF due THEN [ctl EXCEPT !.pc = "build"] ELSE CtlIdle
        /\ ep' = IF due THEN ep ELSE IterationEnd(ep, downlink_payloads_pending)
        /\ radio_tx' = << >>
        /\ task' = "process_received"
        /\ UNCHANGED << ground_sequence_number, tc_packets_waiting_for_ack,
                        expected_spacecraft_sequence_number, tm_packets_to_ack,
                        tm_packets_to_nak, retry_count, dump_mode,
                        downlink_payloads_pending, tm_packet_window,
                        process_thread, rx, tick, n_commands, n_frames,
                        armed_naks, gui, codec >>

\* the window flush builds its packet: the retry counter is stepped and the
\* CEASE_XMIT, the NAK or the ACK gets the ground_sequence_number read here.
\* The OverflowError of make_nak is caught nowhere: it ends the
\* process_received thread with the counter stepped, nothing transmitted
\* and the lists as they were.
FlushBuild ==
    LET f == WindowFlush(tm_packets_to_nak, retry_count, ground_sequence_number)
        acks == IF f.flush = "ack" THEN 1 ELSE 0
        naks == IF f.flush = "nak" THEN 1 ELSE 0
        ceases == IF f.flush = "cease" THEN 1 ELSE 0
    IN  /\ ctl.pc = "build"
        /\ retry_count' = f.rc
        /\ ctl' = IF f.flush = "raised" THEN CtlIdle
                  ELSE [ctl EXCEPT !.pc = "transmit", !.flush = f.flush,
                                   !.packet = f.packet]
        /\ process_thread' = IF f.flush = "raised" THEN "dead" ELSE process_thread
        /\ ep' = [ep EXCEPT
                    !.acks = @ + acks,
                    !.naks = @ + naks,
                    !.ceases = @ + ceases,
                    !.ceased = IF ceases > 0 THEN ep.active ELSE @,
                    !.active = @ /\ ceases = 0,
                    !.dl_naks = IF ep.active THEN @ + naks ELSE @]
        /\ armed_naks' = IF f.rc < 0 THEN 0 ELSE armed_naks + naks
        /\ radio_tx' = << >>
        /\ task' = "process_received"
        /\ UNCHANGED << ground_sequence_number, tc_packets_waiting_for_ack,
                        expected_spacecraft_sequence_number, tm_packets_to_ack,
                        tm_packets_to_nak, dump_mode,
                        downlink_payloads_pending, tm_packet_window,
                        rx, tick, n_commands, n_frames, gui, codec >>

\* the window flush: tc_packet.transmit()
FlushTransmit(random) ==
    /\ ctl.pc = "transmit"
    /\ radio_tx' = << transmit(ctl.packet, random) >>
    /\ task' = "process_received"
    /\ ctl' = [ctl EXCEPT !.pc = "read", !.packet = transmit(ctl.packet, random)]
    /\ codec' = IF codec.op = "race"
                THEN [codec EXCEPT !.sent = Append(@, transmit(ctl.packet, random))]
                ELSE codec
    /\ UNCHANGED << ground_sequence_number, tc_packets_waiting_for_ack,
                    expected_spacecraft_sequence_number, tm_packets_to_ack,
                    tm_packets_to_nak, retry_count, dump_mode,
                    downlink_payloads_pending, tm_packet_window, process_thread,
                    rx, tick, n_commands, n_frames, ep, armed_naks, gui >>

\* the window flush: the read of ground_sequence_number for sn_increment
FlushRead ==
    /\ ctl.pc = "read"
    /\ ctl' = [ctl EXCEPT !.pc = "write", !.read = ground_sequence_number]
    /\ radio_tx' = << >>
    /\ task' = "process_received"
    /\ UNCHANGED << ground_sequence_number, tc_packets_waiting_for_ack,
                    expected_spacecraft_sequence_number, tm_packets_to_ack,
                    tm_packets_to_nak, retry_count, dump_mode,
                    downlink_payloads_pending, tm_packet_window, process_thread,
                    rx, tick, n_commands, n_frames, ep, armed_naks, gui, codec >>

\* the window flush: the store of ground_sequence_number and what follows it
FlushWrite ==
    LET e == FlushEnd(ctl.flush, retry_count, tm_packets_to_ack, tm_packets_to_nak)
    IN  /\ ctl.pc = "write"
        /\ ground_sequence_number' = sn_increment(ctl.read)
        /\ retry_count' = e.rc
        /\ tm_packets_to_ack' = e.to_ack
        /\ tm_packets_to_nak' = e.to_nak
        /\ armed_naks' = IF e.rc < 0 THEN 0 ELSE armed_naks
        /\ ctl' = CtlIdle
        /\ ep' = IterationEnd(ep, downlink_payloads_pending)
        /\ radio_tx' = << >>
        /\ task' = "process_received"
        /\ UNCHANGED << tc_packets_waiting_for_ack,
                        expected_spacecraft_sequence_number, dump_mode,
                        downlink_payloads_pending, tm_packet_window,
                        process_thread, rx, tick, n_commands, n_frames,
                        gui, codec >>

\* the steps that continue the button press of a downlink command or of
\* SET_COMMS up to its transmit()
CommandSetup == CommandDumpMode \/ CommandBuild

\* the steps from the transmit() of a button press on, with
\* uplink_simulated_error_rate at 0: the draw of transmit never succeeds
CommandSend ==
    CommandTransmit(FALSE) \/ CommandRead \/ CommandWrite \/ CommandAppend

\* the steps that continue a button press
CommandStep == CommandSetup \/ CommandSend

\* the steps that continue the branch of a health or science packet
PayloadStep ==
    PayloadsRead \/ PayloadsWrite \/ PayloadsTest \/ PayloadsZero \/ PayloadsAppend

\* the steps of the window flush, with uplink_simulated_error_rate at 0
FlushStep ==
    \/ FlushCheck
    \/ WindowCheck
    \/ FlushBuild
    \/ FlushTransmit(FALSE)
    \/ FlushRead
    \/ FlushWrite

\* the steps of the for loop of the NAK branch, with
\* uplink_simulated_error_rate at 0
RetransmitStep == RetransmitClear \/ Retransmit(FALSE) \/ RetransmitNext

Next ==
    \/ \E c \in CommandInputs : n_commands < MaxCommands /\ ProcessCommand(c)
    \/ \E f \in Frames : n_frames < MaxFrames /\ ProcessReceived(f)
    \/ Timeout
    \/ SocketClosed
    \/ CommandStep
    \/ PayloadStep
    \/ FlushStep
    \/ RetransmitStep

Spec == Init /\ [][Next]_vars

\* a downlink is pending: a command waits for its answer, the retry counter
\* is armed, or packets wait to be NAKed
Pending ==
    \/ tc_packets_waiting_for_ack # << >>
    \/ retry_count >= 0
    \/ tm_packets_to_nak # << >>

\* the controller is idle
Idle == retry_count = -1 /\ tm_packets_to_nak = << >>

(***************************************************************************)
(* The retry scenarios: one window-1 science downlink after another, the   *)
(* replies passing or failing the MAC check, deep enough for the retry     *)
(* counter to run out and for a command to follow the CEASE_XMIT.  The     *)
(* operator may press a button at any moment, also while the controller    *)
(* is in the middle of a flush; the spacecraft answers a command, and the  *)
(* queue times out, after process_command has returned.  A frame that      *)
(* arrives while process_command is still running is the subject of Spec   *)
(* and SpecRace.                                                           *)
(***************************************************************************)
RetryCommands == 2

RetryFrames == 11

RetryScience == 7

GoodScienceFrame == TmFrame(65535, << 3, 1 >>, sc_mac_key)

BadScienceFrame == TmFrame(65535, << 3, 1 >>, gs_mac_key)

RetryCommandInputs ==
    { [button_label |-> "XMIT_SCIENCE", args |-> DialogArgs("XMIT_SCIENCE", RetryScience),
       dialog1_xmit |-> TRUE] }

NextRetry ==
    \/ \E c \in RetryCommandInputs :
          n_commands < RetryCommands /\ ProcessCommand(c)
    \/ \E f \in { GoodScienceFrame, BadScienceFrame } :
          n_frames < RetryFrames /\ gui.pc = "idle" /\ ProcessReceived(f)
    \/ gui.pc = "idle" /\ Timeout
    \/ CommandStep
    \/ PayloadStep
    \/ FlushStep

SpecRetry == Init /\ [][NextRetry]_vars

(***************************************************************************)
(* The retry budget: one window-1 science downlink, the replies passing or *)
(* failing the MAC check, long enough for max_retries NAKs, a clean window *)
(* that resets the counter, and a further NAK or the CEASE_XMIT.  The      *)
(* button may be pressed at any moment, frames come after process_command  *)
(* has returned.  The station is taken from start-up, and also from the    *)
(* state it is in when NakBacklog frames in a row have failed the MAC      *)
(* check since start-up, which leaves the last BacklogFrames frames to     *)
(* come: a MAC failure starts no flush, so tm_packets_to_nak then holds    *)
(* NakBacklog packets, just short of what one byte of a NAK can count.     *)
(***************************************************************************)
BudgetCommands == 1

BudgetFrames == 11

NakBacklog == 254

BacklogFrames == 3

\* the station after n >= 1 frames in a row that failed the MAC check,
\* taken from start-up with no button pressed: every frame has stepped
\* expected_spacecraft_sequence_number and put its packet on
\* tm_packets_to_nak, the first has armed retry_count; frames says how many
\* frames count as taken
AfterFailures(n, frames) ==
    /\ ground_sequence_number \in StartSeqNums
    /\ expected_spacecraft_sequence_number = n
    /\ tc_packets_waiting_for_ack = << >>
    /\ tm_packets_to_ack = << >>
    /\ tm_packets_to_nak = [i \in 1..n |-> i - 1]
    /\ retry_count = RetryArm(-1)
    /\ dump_mode = FALSE
    /\ downlink_payloads_pending = 0
    /\ tm_packet_window = 1
    /\ process_thread = "running"
    /\ radio_tx = << >>
    /\ task = "process_received"
    /\ rx = [event |-> "frame", branch |-> "mac_failure",
             is_spp_packet |-> TRUE,
             validation_mask |-> Parsed[BadScienceFrame].validation_mask]
    /\ tick = n % 2
    /\ n_commands = 0
    /\ n_frames = frames
    /\ ep = [NoEpoch EXCEPT !.bad = n]
    /\ armed_naks = 0
    /\ gui = GuiIdle
    /\ ctl = CtlIdle

InitBudget ==
    \/ Init
    \/ /\ AfterFailures(NakBacklog, BudgetFrames - BacklogFrames)
       /\ codec = NoCodec

NextBudget ==
    \/ \E c \in RetryCommandInputs :
          n_commands < BudgetCommands /\ ProcessCommand(c)
    \/ \E f \in { GoodScienceFrame, BadScienceFrame } :
          n_frames < BudgetFrames /\ gui.pc = "idle" /\ ProcessReceived(f)
    \/ CommandStep
    \/ PayloadStep
    \/ FlushStep

SpecBudget == InitBudget /\ [][NextBudget]_vars

(***************************************************************************)
(* The windowed downlinks: the operator sets the window with SET_COMMS and *)
(* asks for health or for 2 or MaxScience science packets; the replies     *)
(* arrive one frame at a time, each after process_command has returned;    *)
(* a command may be issued at any moment, also in the middle of a flush.   *)
(***************************************************************************)
DownlinkCommands == 2

DownlinkFrames == 5

MaxScience == 5

MaxWindow == 3

HealthFrame == TmFrame(65535, << 2, 1 >>, sc_mac_key)

DownlinkCommandInputs ==
    { [button_label |-> "XMIT_SCIENCE", args |-> DialogArgs("XMIT_SCIENCE", n),
       dialog1_xmit |-> TRUE] : n \in { 2, MaxScience } }
    \cup { [button_label |-> "SET_COMMS", args |-> DialogArgs("SET_COMMS", w),
            dialog1_xmit |-> TRUE] : w \in 2..MaxWindow }
    \cup { [button_label |-> "XMIT_HEALTH", args |-> DialogArgs("XMIT_HEALTH", 0),
            dialog1_xmit |-> TRUE] }

DownlinkFrameInputs ==
    { GoodScienceFrame, HealthFrame }

NextDownlink ==
    \/ \E c \in DownlinkCommandInputs :
          n_commands < DownlinkCommands /\ ProcessCommand(c)
    \/ \E f \in DownlinkFrameInputs :
          n_frames < DownlinkFrames /\ gui.pc = "idle" /\ ProcessReceived(f)
    \/ CommandStep
    \/ PayloadStep
    \/ FlushStep

SpecDownlink == Init /\ [][NextDownlink]_vars

(***************************************************************************)
(* Radio silence: after a command and at most SilenceFrames frames nothing *)
(* arrives any more, and q_receive_packet.get times out again and again.   *)
(* The get returns after ack_timeout whenever the queue stays empty, so    *)
(* the timeout is weakly fair; a handler that has started runs on to its   *)
(* end, so its steps are weakly fair as well.                              *)
(***************************************************************************)
SilenceCommands == 1

SilenceFrames == 3

NextSilence ==
    \/ \E c \in DownlinkCommandInputs :
          n_commands < SilenceCommands /\ ProcessCommand(c)
    \/ \E f \in { GoodScienceFrame, BadScienceFrame } :
          n_frames < SilenceFrames /\ ProcessReceived(f)
    \/ Timeout
    \/ CommandStep
    \/ PayloadStep
    \/ FlushStep

SpecSilence ==
    /\ Init /\ [][NextSilence]_vars
    /\ WF_vars(Timeout) /\ WF_vars(CommandStep)
    /\ WF_vars(PayloadStep) /\ WF_vars(FlushStep)

(***************************************************************************)
(* Tampering with a packet in flight: a telemetry packet is wrapped, one   *)
(* bit of its timestamp, sequence number or payload is flipped, and the    *)
(* receiver unwraps and validates what arrives.                            *)
(***************************************************************************)
TamperData == { << 3, 1 >>, << 2, 1 >>, << 1, 0, 3, 0, 2 >> }

TamperSeqNums == { 1, 65535 }

TamperSows == { FrameSow, 2000000001 }

\* byte with bit number bit (0 = least significant) inverted
FlipBit(byte, bit) ==
    IF (byte \div (2 ^ bit)) % 2 = 1 THEN byte - 2 ^ bit ELSE byte + 2 ^ bit

\* the packet: SppPacket('TM').set_spp_data / set_sequence_number
InitTamper ==
    /\ InitArq
    /\ codec \in { [op |-> "set", spp_data |-> d, sequence_number |-> sn,
                    gps_sow |-> sow] :
                     d \in TamperData, sn \in TamperSeqNums, sow \in TamperSows }

\* the sender wraps the packet with the spacecraft key
Wrap ==
    /\ codec.op = "set"
    /\ codec' = [op |-> "wrapped",
                 spp_packet |-> spp_wrap(8, FrameWeek, codec.gps_sow,
                                         codec.sequence_number, codec.spp_data,
                                         sc_mac_key)]
    /\ UNCHANGED arq_vars

\* one bit of byte idx (0-based: 3..12 timestamp, 13..14 sequence number,
\* 15.. payload) is inverted on the way, and the receiver validates
Tamper(idx, bit) ==
    /\ codec.op = "wrapped"
    /\ idx < Len(codec.spp_packet) - mac_digest_len
    /\ LET received == [codec.spp_packet EXCEPT ![idx + 1] = FlipBit(@, bit)]
           u == spp_unwrap(received)
       IN  codec' = [op |-> "tampered", idx |-> idx, bit |-> bit,
                     spp_packet |-> received,
                     validation_mask |->
                         validate_packet(received, u.mac_digest, sc_mac_key)]
    /\ UNCHANGED arq_vars

\* the receiver validates the packet as it was sent
Deliver ==
    /\ codec.op = "wrapped"
    /\ codec' = [op |-> "delivered", spp_packet |-> codec.spp_packet,
                 validation_mask |->
                     validate_packet(codec.spp_packet,
                                     spp_unwrap(codec.spp_packet).mac_digest,
                                     sc_mac_key)]
    /\ UNCHANGED arq_vars

NextTamper ==
    \/ Wrap
    \/ \E idx \in 3..19, bit \in 0..7 : Tamper(idx, bit)
    \/ Deliver

SpecTamper == InitTamper /\ [][NextTamper]_vars

(***************************************************************************)
(* Sequence-number arithmetic: sn_decrement and sn_increment applied to    *)
(* every sequence number of the 16-bit space.                              *)
(***************************************************************************)
SeqNums == 1..65535

InitSeq ==
    /\ InitArq
    /\ codec \in { [op |-> "sn", n |-> n, result |-> n] : n \in SeqNums }

\* sequence_number = sn_decrement(sequence_number)
Decrement ==
    /\ codec.op = "sn"
    /\ codec' = [codec EXCEPT !.op = "dec", !.result = sn_decrement(codec.n)]
    /\ UNCHANGED arq_vars

\* sequence_number = sn_increment(sequence_number), on a fresh number or on
\* the result of sn_decrement
Increment ==
    /\ codec.op \in { "sn", "dec" }
    /\ codec' = [codec EXCEPT !.op = IF codec.op = "sn" THEN "inc" ELSE "dec_inc",
                              !.result = sn_increment(codec.result)]
    /\ UNCHANGED arq_vars

NextSeq == Decrement \/ Increment

SpecSeq == InitSeq /\ [][NextSeq]_vars

(***************************************************************************)
(* Wraparound of ground_sequence_number: the station has been running long *)
(* enough for the next TC to carry one of the last sequence numbers.       *)
(***************************************************************************)
WrapCommands == 2

WrapFrames == 2

WrapSeqNums == { 65534, 65535 }

\* the station after gsn - 1 NOOP commands, each issued while the controller
\* waits for a frame and each acknowledged by the spacecraft with the ACK
\* frame of sequence number 65535 before the next one; commands and frames
\* are counted from this state on
AfterNoops(gsn, commands, frames) ==
    /\ ground_sequence_number = gsn
    /\ expected_spacecraft_sequence_number = 1
    /\ tc_packets_waiting_for_ack = << >>
    /\ tm_packets_to_ack = << >>
    /\ tm_packets_to_nak = << >>
    /\ retry_count = -1
    /\ dump_mode = FALSE
    /\ downlink_payloads_pending = 0
    /\ tm_packet_window = 1
    /\ process_thread = "running"
    /\ radio_tx = << >>
    /\ task = "process_received"
    /\ rx = [event |-> "frame", branch |-> "dispatched", is_spp_packet |-> TRUE,
             validation_mask |-> 0]
    /\ tick = (gsn - 1) % 2
    /\ n_commands = commands
    /\ n_frames = frames
    /\ ep = [NoEpoch EXCEPT !.cmd = "NOOP", !.idle_start = TRUE, !.other = 1]
    /\ armed_naks = 0
    /\ gui = GuiIdle
    /\ ctl = CtlIdle

InitWrap ==
    /\ \E gsn \in WrapSeqNums : AfterNoops(gsn, 0, 0)
    /\ codec = NoCodec

WrapCommandInputs ==
    { [button_label |-> l, args |-> DialogArgs(l, 2), dialog1_xmit |-> TRUE] :
        l \in { "NOOP", "XMIT_SCIENCE", "PING_RETURN" } }

NextWrap ==
    \/ \E c \in WrapCommandInputs : n_commands < WrapCommands /\ ProcessCommand(c)
    \/ \E f \in { GoodScienceFrame, BadScienceFrame } :
          n_frames < WrapFrames /\ ProcessReceived(f)
    \/ Timeout
    \/ CommandStep
    \/ PayloadStep
    \/ FlushStep

SpecWrap == InitWrap /\ [][NextWrap]_vars

(***************************************************************************)
(* GsCipher.  SpeckCipher(key, key_size=128, block_size=64, mode, init) is *)
(* a keyed permutation of the 64-bit blocks with its inverse; it is        *)
(* represented on blocks of 8 bytes (big-endian) by a byte permutation     *)
(* with a keyed offset.  In CBC mode the cipher object keeps the chaining  *)
(* value from one block to the next, and from one call to the next unless  *)
(* update_iv replaces it.                                                  *)
(***************************************************************************)
gs_encryption_key == 37

\* GsCipher.iv_bytes
iv_bytes == << 170, 172, 130, 64, 118, 174, 104, 170 >>

\* GsCipher.mode as main sets it
mode == "CBC"

RECURSIVE BitXor(_, _)
BitXor(a, b) ==
    IF a = 0 /\ b = 0 THEN 0
    ELSE (((a % 2) + (b % 2)) % 2) + 2 * BitXor(a \div 2, b \div 2)

\* block ^ iv on two 8-byte blocks
BlockXor(block, iv) == [i \in 1..8 |-> BitXor(block[i], iv[i])]

\* the block cipher and its inverse
speck_encrypt(block, key) ==
    [i \in 1..8 |-> (block[9 - i] + 7 * i + key) % 256]

speck_decrypt(block, key) ==
    [i \in 1..8 |-> (block[9 - i] + 512 - 7 * (9 - i) - key) % 256]

\* iv_int = int.from_bytes(iv_bytes, byteorder='little') as a 64-bit block
iv_int == [i \in 1..8 |-> iv_bytes[9 - i]]

\* int.from_bytes(ax25_packet_temp[i:(i + 8)], byteorder='big') as a 64-bit
\* block: a slice that runs off the end of the frame is short, and its
\* bytes are the low-order ones
BlockAt(ax25_packet_temp, i) ==
    LET piece == Slice(ax25_packet_temp, i, i + 8)
    IN  Zeros(8 - Len(piece)) \o piece

\* the chaining value of the previous call is carried into the next one
StartIvKept(cipher_mode, iv) == iv

\* the chaining value at the start of a call: update_iv(iv_int) in CBC mode
StartIv(cipher_mode, iv) == IF cipher_mode = "CBC" THEN iv_int ELSE iv

\* the 29 blocks of GsCipher.encrypt from block number k on: the bytes
\* appended and the chaining value left in the cipher object
RECURSIVE EncryptBlocks(_, _, _, _)
EncryptBlocks(ax25_packet_temp, k, iv, cipher_mode) ==
    IF k >= 29 THEN [bytes |-> << >>, iv |-> iv]
    ELSE LET plaintext == BlockAt(ax25_packet_temp, 8 * k)
             ciphertext == IF cipher_mode = "CBC"
                           THEN speck_encrypt(BlockXor(plaintext, iv), gs_encryption_key)
                           ELSE speck_encrypt(plaintext, gs_encryption_key)
             rest == EncryptBlocks(ax25_packet_temp, k + 1,
                                   IF cipher_mode = "CBC" THEN ciphertext ELSE iv,
                                   cipher_mode)
         IN  [bytes |-> ciphertext \o rest.bytes, iv |-> rest.iv]

RECURSIVE DecryptBlocks(_, _, _, _)
DecryptBlocks(ax25_packet_temp, k, iv, cipher_mode) ==
    IF k >= 29 THEN [bytes |-> << >>, iv |-> iv]
    ELSE LET ciphertext == BlockAt(ax25_packet_temp, 8 * k)
             plaintext == IF cipher_mode = "CBC"
                          THEN BlockXor(speck_decrypt(ciphertext, gs_encryption_key), iv)
                          ELSE speck_decrypt(ciphertext, gs_encryption_key)
             rest == DecryptBlocks(ax25_packet_temp, k + 1,
                                   IF cipher_mode = "CBC" THEN ciphertext ELSE iv,
                                   cipher_mode)
         IN  [bytes |-> plaintext \o rest.bytes, iv |-> rest.iv]

\* the ciphertext blocks are not followed by the five zero bytes
encryptNoTail(ax25_packet, iv) ==
    LET blocks == EncryptBlocks(SliceFrom(ax25_packet, 16), 0,
                                StartIv(mode, iv), mode)
    IN  [ax25_packet_encrypted |-> Slice(ax25_packet, 0, 16) \o blocks.bytes,
         iv |-> blocks.iv]

\* GsCipher.encrypt on a cipher object whose chaining value is iv
encrypt(ax25_packet, iv) ==
    LET blocks == EncryptBlocks(SliceFrom(ax25_packet, 16), 0,
                                StartIv(mode, iv), mode)
    IN  [ax25_packet_encrypted |->
             Slice(ax25_packet, 0, 16) \o blocks.bytes \o Zeros(5),
         iv |-> blocks.iv]

\* GsCipher.decrypt on a cipher object whose chaining value is iv
decrypt(ax25_packet_encrypted, iv) ==
    LET blocks == DecryptBlocks(SliceFrom(ax25_packet_encrypted, 16), 0,
                                StartIv(mode, iv), mode)
    IN  [ax25_packet |-> Slice(ax25_packet_encrypted, 0, 16) \o blocks.bytes,
         iv |-> blocks.iv]

(***************************************************************************)
(* The uplink cipher on its own: one GsCipher object, frames encrypted and *)
(* decrypted in any order.  codec.iv is the chaining value the Speck       *)
(* object holds between calls, codec.seen the ciphertext of every frame    *)
(* encrypted so far.                                                       *)
(***************************************************************************)
CipherOps == 3

\* a frame of 253 bytes that is not zero anywhere after the header
FullFrame == ax25_header \o [i \in 1..237 |-> i]

CipherFrames ==
    { ax25_wrap(ax25_header, 24,
                spp_wrap(24, FrameWeek, FrameSow, sn, d, gs_mac_key), TRUE) :
          sn \in { 65535 }, d \in { << 9 >>, << 3, 2 >> } }
      \cup { FullFrame, ax25_header, ax25_header \o << 1, 2, 3, 4 >>,
             FullFrame \o << 7, 7, 7, 7, 7, 7, 7 >> }

InitCipher ==
    /\ InitArq
    /\ codec = [op |-> "new", iv |-> iv_int, frame |-> << >>, out |-> << >>,
                seen |-> { }, log |-> << >>]

Encrypt(frame) ==
    /\ Len(codec.log) < CipherOps
    /\ LET e == encrypt(frame, codec.iv)
       IN  codec' = [op |-> "encrypted", iv |-> e.iv, frame |-> frame,
                     out |-> e.ax25_packet_encrypted,
                     seen |-> codec.seen
                                \cup { << frame, e.ax25_packet_encrypted >> },
                     log |-> Append(codec.log, "encrypt")]
    /\ UNCHANGED arq_vars

Decrypt(frame) ==
    /\ Len(codec.log) < CipherOps
    /\ LET d == decrypt(frame, codec.iv)
       IN  codec' = [codec EXCEPT !.op = "decrypted", !.iv = d.iv,
                                  !.frame = frame, !.out = d.ax25_packet,
                                  !.log = Append(@, "decrypt")]
    /\ UNCHANGED arq_vars

\* the frame just encrypted is received back and decrypted
DecryptEncrypted ==
    /\ codec.op = "encrypted"
    /\ LET d == decrypt(codec.out, codec.iv)
       IN  codec' = [codec EXCEPT !.op = "round_trip", !.iv = d.iv,
                                  !.out = d.ax25_packet]
    /\ UNCHANGED arq_vars

NextCipher ==
    \/ \E frame \in CipherFrames : Encrypt(frame)
    \/ \E frame \in CipherFrames : Decrypt(frame)
    \/ DecryptEncrypted

SpecCipher == InitCipher /\ [][NextCipher]_vars

(***************************************************************************)
(* The SPP codec on its own: a packet of either type is built from its     *)
(* fields by __spp_wrap and read back by __spp_unwrap and                  *)
(* __validate_packet on a packet object of the same type.                  *)
(***************************************************************************)
LongPayload == 230

SppSeqNums == { 1, 255, 256, 65535 }

SppPayloads ==
    { << 9 >>, << 3, 2 >>, << 1, 0, 3, 0, 2 >>, << 192, 219 >>,
      [i \in 1..19 |-> i], [i \in 1..LongPayload |-> i % 256] }

\* SppPacket.__init__: the key of a packet object of this type
KeyOf(packet_type) == IF packet_type = 24 THEN gs_mac_key ELSE sc_mac_key

InitSpp ==
    /\ InitArq
    /\ codec \in { [op |-> "fields", packet_type |-> t, sequence_number |-> sn,
                    spp_data |-> d] :
                     t \in { 8, 24 }, sn \in SppSeqNums, d \in SppPayloads }

SppWrap ==
    /\ codec.op = "fields"
    /\ codec' = [op |-> "spp_wrapped",
                 packet_type |-> codec.packet_type,
                 sequence_number |-> codec.sequence_number,
                 spp_data |-> codec.spp_data,
                 spp_packet |-> spp_wrap(codec.packet_type, FrameWeek,
                                         FrameSow, codec.sequence_number,
                                         codec.spp_data,
                                         KeyOf(codec.packet_type))]
    /\ UNCHANGED arq_vars

SppUnwrap ==
    /\ codec.op = "spp_wrapped"
    /\ LET u == spp_unwrap(codec.spp_packet)
       IN  codec' = [op |-> "spp_unwrapped",
                     packet_type |-> codec.packet_type,
                     sequence_number |-> codec.sequence_number,
                     spp_data |-> codec.spp_data,
                     spp_packet |-> codec.spp_packet,
                     read |-> u,
                     validation_mask |->
                         validate_packet(codec.spp_packet, u.mac_digest,
                                         KeyOf(codec.packet_type))]
    /\ UNCHANGED arq_vars

NextSpp == SppWrap \/ SppUnwrap

SpecSpp == InitSpp /\ [][NextSpp]_vars

(***************************************************************************)
(* KISS framing                                                            *)
(***************************************************************************)
FEND == 192
FESC == 219
TFEND == 220
TFESC == 221

RECURSIVE KissEscape(_)
KissEscape(ax25_packet) ==
    IF ax25_packet = << >> THEN << >>
    ELSE (IF Head(ax25_packet) = FEND THEN << FESC, TFEND >>
          ELSE IF Head(ax25_packet) = FESC THEN << FESC, TFESC >>
          ELSE << Head(ax25_packet) >>)
         \o KissEscape(Tail(ax25_packet))

\* only the frame delimiter is escaped
kiss_wrapFendOnly(ax25_packet) ==
    << FEND, 0 >>
    \o [i \in 1..Len(ax25_packet) |-> IF ax25_packet[i] = FEND THEN FESC
                                      ELSE ax25_packet[i]]
    \o << FEND >>

kiss_wrap(ax25_packet) == << FEND, 0 >> \o KissEscape(ax25_packet) \o << FEND >>

\* the loop of kiss_unwrap over the bytes left, fesc_found as the loop has it
RECURSIVE KissUnescape(_, _)
KissUnescape(bytes, fesc_found) ==
    IF bytes = << >> THEN << >>
    ELSE LET b == Head(bytes)
         IN  IF fesc_found
             THEN (IF b = TFESC THEN << FESC >>
                   ELSE IF b = TFEND THEN << FEND >>
                   ELSE << >>)
                  \o KissUnescape(Tail(bytes), FALSE)
             ELSE IF b = FESC THEN KissUnescape(Tail(bytes), TRUE)
             ELSE << b >> \o KissUnescape(Tail(bytes), FALSE)

\* variant: the loop runs to the end of the packet
kiss_unwrapToEnd(kiss_packet) == KissUnescape(SliceFrom(kiss_packet, 2), FALSE)

kiss_unwrap(kiss_packet) == KissUnescape(Slice(kiss_packet, 2, -1), FALSE)

MaxKissLen == 3

\* the four bytes the framing treats specially and one it does not
KissBytes == { FEND, FESC, TFEND, TFESC, 65 }

KissPackets == UNION { [1..k -> KissBytes] : k \in 0..MaxKissLen }

InitKiss ==
    /\ InitArq
    /\ codec \in { [op |-> "packet", ax25_packet |-> p, kiss_packet |-> << >>,
                    unwrapped |-> << >>] : p \in KissPackets }

KissWrap ==
    /\ codec.op = "packet"
    /\ codec' = [codec EXCEPT !.op = "kiss_wrapped",
                              !.kiss_packet = kiss_wrap(codec.ax25_packet)]
    /\ UNCHANGED arq_vars

KissUnwrap ==
    /\ codec.op = "kiss_wrapped"
    /\ codec' = [codec EXCEPT !.op = "kiss_unwrapped",
                              !.unwrapped = kiss_unwrap(codec.kiss_packet)]
    /\ UNCHANGED arq_vars

NextKiss == KissWrap \/ KissUnwrap

SpecKiss == InitKiss /\ [][NextKiss]_vars

(***************************************************************************)
(* The AX.25 framing on its own: an SPP packet of either type is framed by *)
(* __ax25_wrap and the frame is taken apart by __ax25_unwrap on a packet   *)
(* object of the same type.  The payload lengths run across the length at  *)
(* which a TC frame reaches 253 bytes without padding (206).               *)
(***************************************************************************)
Ax25PayloadLengths == { 1, 2, 5, 19, 100, 204, 205, 206, 207, 230 }

InitAx25 ==
    /\ InitArq
    /\ codec \in { [op |-> "spp", packet_type |-> t, maxsize |-> g,
                    spp_packet |-> spp_wrap(t, FrameWeek, FrameSow, 65535,
                                            [i \in 1..n |-> i % 256], KeyOf(t)),
                    ax25_packet |-> << >>, unwrapped |-> << >>] :
                     t \in { 8, 24 }, g \in BOOLEAN, n \in Ax25PayloadLengths }

Ax25Wrap ==
    /\ codec.op = "spp"
    /\ codec' = [codec EXCEPT
                   !.op = "ax25_wrapped",
                   !.ax25_packet = ax25_wrap(ax25_header, codec.packet_type,
                                             codec.spp_packet, codec.maxsize)]
    /\ UNCHANGED arq_vars

Ax25Unwrap ==
    /\ codec.op = "ax25_wrapped"
    /\ codec' = [codec EXCEPT
                   !.op = "ax25_unwrapped",
                   !.unwrapped = ax25_unwrap(codec.ax25_packet,
                                             codec.packet_type, codec.maxsize)]
    /\ UNCHANGED arq_vars

NextAx25 == Ax25Wrap \/ Ax25Unwrap

SpecAx25 == InitAx25 /\ [][NextAx25]_vars

(***************************************************************************)
(* Building the link header: init_ax25_header on callsigns of one to six   *)
(* printable characters, as main passes them from the configuration file.  *)
(***************************************************************************)
\* "KK4XYZ" and its prefixes, and the callsign of the model's frames
HeaderCallsigns ==
    { SubSeq(<< 75, 75, 52, 88, 89, 90 >>, 1, k) : k \in 1..6 } \cup { Callsign }

HeaderSsids == { 0, 11, 15 }

InitHeader ==
    /\ InitArq
    /\ codec \in { [op |-> "args", dst_callsign |-> dc, dst_ssid |-> ds,
                    src_callsign |-> sc, src_ssid |-> ss, header |-> << >>] :
                     dc \in HeaderCallsigns, ds \in HeaderSsids,
                     sc \in HeaderCallsigns, ss \in HeaderSsids }

\* ax25_callsign(b_callsign) reads b_callsign[6]: IndexError on a slice of
\* fewer than 7 bytes
ax25_callsign_raises(b_callsign) == Len(b_callsign) < 7

\* init_ax25_header returns the header bytes, or raises the IndexError of
\* ax25_callsign(ax25_header[0:7]) or ax25_callsign(ax25_header[7:14])
BuildHeader ==
    /\ codec.op = "args"
    /\ LET ax25_header_built ==
               init_ax25_header(codec.dst_callsign, codec.dst_ssid,
                                codec.src_callsign, codec.src_ssid)
           raised ==
               \/ ax25_callsign_raises(Slice(ax25_header_built, 0, 7))
               \/ ax25_callsign_raises(Slice(ax25_header_built, 7, 14))
       IN  codec' = [codec EXCEPT
                       !.op = IF raised THEN "raised" ELSE "header",
                       !.header = IF raised THEN << >> ELSE ax25_header_built]
    /\ UNCHANGED arq_vars

NextHeader == BuildHeader

SpecHeader == InitHeader /\ [][NextHeader]_vars

(***************************************************************************)
(* Classifying a received frame: process_received pads the frame to 48     *)
(* bytes and parse_ax25 on a TM packet object sets is_oa_packet.  The      *)
(* frames carry the OA key or a key with one byte changed, command bytes   *)
(* on both sides of the range the code accepts, and nothing or something   *)
(* after the command byte.                                                 *)
(***************************************************************************)
OaKeys ==
    { oa_key, [oa_key EXCEPT ![1] = 0], [oa_key EXCEPT ![9] = 0],
      [oa_key EXCEPT ![16] = 0] }

OaCommandBytes == 47..53

OaTails == { << >>, << 1, 2 >>, Zeros(15) }

OaFrames ==
    { sc_ax25_header \o k \o << c >> \o t :
        k \in OaKeys, c \in OaCommandBytes, t \in OaTails }

InitOa ==
    /\ InitArq
    /\ codec \in { [op |-> "received", frame |-> f, is_oa_packet |-> FALSE] :
                     f \in OaFrames }

Classify ==
    /\ codec.op = "received"
    /\ codec' = [codec EXCEPT
                   !.op = "classified",
                   !.is_oa_packet =
                       ReceivedPacket(codec.frame).is_oa_packet]
    /\ UNCHANGED arq_vars

NextOa == Classify

SpecOa == InitOa /\ [][NextOa]_vars

(***************************************************************************)
(* The receiver task: receive_packet (KISS branch) reads chunks of bytes   *)
(* from the socket, cuts them into KISS frames and hands every frame to    *)
(* queue_receive_packet.  codec holds the task's locals, whether the task  *)
(* is still running, and the frames put on q_receive_packet.               *)
(***************************************************************************)
\* ax25_callsign: the characters without spaces, '-', the SSID in decimal
ax25_callsign(b_callsign) ==
    LET chars == [i \in 1..Min(6, Len(b_callsign)) |-> b_callsign[i] \div 2]
        ssid == (At(b_callsign, 6) \div 2) % 16
        NotSpace(c) == c # 32
    IN  SelectSeq(chars, NotSpace) \o << 45 >>
        \o (IF ssid < 10 THEN << 48 + ssid >> ELSE << 49, 38 + ssid >>)

\* the callsigns main keeps from init_ax25_header
sc_ax25_callsign == ax25_callsign(Slice(ax25_header, 0, 7))

gs_ax25_callsign == ax25_callsign(Slice(ax25_header, 7, 14))

\* comms.encrypt_uplink of the configuration file
encrypt_uplink == TRUE

\* variant: the callsign is read from the destination field
queue_receive_packetDest(ax25_packet, my_ax25_callsign) ==
    IF ax25_callsign_raises(Slice(ax25_packet, 0, 7))
    THEN [raised |-> TRUE, put |-> << >>]
    ELSE [raised |-> FALSE,
          put |-> IF ax25_callsign(Slice(ax25_packet, 0, 7)) # my_ax25_callsign
                  THEN << ax25_packet >> ELSE << >>]

\* queue_receive_packet on a frame: raised when ax25_callsign raises
\* IndexError, otherwise the frames it puts on the queue
queue_receive_packet(ax25_packet, my_ax25_callsign) ==
    IF ax25_callsign_raises(Slice(ax25_packet, 7, 14))
    THEN [raised |-> TRUE, put |-> << >>]
    ELSE LET ax25_src_callsign == ax25_callsign(Slice(ax25_packet, 7, 14))
             is_oa_packet == is_oa_command(ax25_packet)
         IN  [raised |-> FALSE,
              put |-> IF ax25_src_callsign # my_ax25_callsign
                      THEN IF /\ encrypt_uplink
                              /\ ax25_src_callsign = gs_ax25_callsign
                              /\ ~ is_oa_packet
                           THEN << decrypt(ax25_packet, iv_int).ax25_packet >>
                           ELSE << ax25_packet >>
                      ELSE << >>]

\* the loop of receive_packet over the bytes of one chunk, taken up to the
\* next FEND at a time (the bytes before it are appended to rcv_buffer
\* inside a frame and skipped outside one); r is the task: in_kiss_packet,
\* rcv_buffer, the queue, and running (FALSE once an exception has ended
\* the task)
RECURSIVE ReceiveBytes(_, _)
ReceiveBytes(r, rcv_string) ==
    LET fends == { i \in 1..Len(rcv_string) : rcv_string[i] = FEND }
    IN  IF rcv_string = << >> \/ ~ r.running THEN r
        ELSE IF fends = { }
        THEN IF r.in_kiss_packet
             THEN [r EXCEPT !.rcv_buffer = @ \o rcv_string]
             ELSE r
        ELSE LET i == CHOOSE j \in fends : \A k \in fends : j <= k
                 rest == SubSeq(rcv_string, i + 1, Len(rcv_string))
             IN  IF r.in_kiss_packet
                 THEN LET rcv_buffer == r.rcv_buffer \o SubSeq(rcv_string, 1, i)
                          q == queue_receive_packet(kiss_unwrap(rcv_buffer),
                                                    gs_ax25_callsign)
                      IN  ReceiveBytes(
                            [r EXCEPT !.in_kiss_packet = FALSE,
                                      !.rcv_buffer = rcv_buffer,
                                      !.running = ~ q.raised,
                                      !.q_receive_packet = @ \o q.put],
                            rest)
                 ELSE ReceiveBytes([r EXCEPT !.in_kiss_packet = TRUE,
                                             !.rcv_buffer = << FEND >>],
                                   rest)

MaxChunks == 3

\* a health reply of the spacecraft and the ground station's own NOOP
GoodKissFrame == kiss_wrap(TmFrame(1, << 2, 192, 219 >>, sc_mac_key))

OwnKissFrame ==
    kiss_wrap(ax25_wrap(ax25_header, 24,
                        spp_wrap(24, FrameWeek, FrameSow, 1, << 9 >>, gs_mac_key),
                        FALSE))

\* a frame whose escape byte is followed by a byte that is no escape code
BadEscapeKissFrame ==
    << FEND, 0 >> \o sc_ax25_header \o << FESC, 65, 66 >> \o << FEND >>

\* frames of 0, 3 and 13 data bytes
ShortKissFrames ==
    { << FEND, FEND >>, kiss_wrap(<< 1, 2, 3 >>),
      kiss_wrap(SubSeq(sc_ax25_header, 1, 13)) }

\* what one recv may return: whole frames, or a frame in two pieces
Chunks ==
    { GoodKissFrame, OwnKissFrame, BadEscapeKissFrame,
      SubSeq(GoodKissFrame, 1, 20),
      SubSeq(GoodKissFrame, 21, Len(GoodKissFrame)) }
      \cup ShortKissFrames

InitReceiver ==
    /\ InitArq
    /\ codec = [op |-> "started", in_kiss_packet |-> FALSE,
                rcv_buffer |-> << >>, running |-> TRUE,
                q_receive_packet |-> << >>, chunks |-> << >>]

\* radio.receive returns a chunk of bytes
ReceiveChunk(rcv_string) ==
    /\ codec.running
    /\ Len(codec.chunks) < MaxChunks
    /\ codec' = [ReceiveBytes(codec, rcv_string) EXCEPT
                   !.op = "received",
                   !.chunks = Append(codec.chunks, rcv_string)]
    /\ UNCHANGED arq_vars

\* radio.receive returns None (timeout or closed socket): None is queued
ReceiveNone ==
    /\ codec.running
    /\ Len(codec.chunks) < MaxChunks
    /\ codec' = [codec EXCEPT !.op = "none", !.in_kiss_packet = FALSE,
                              !.q_receive_packet = Append(@, << >>),
                              !.chunks = Append(@, << >>)]
    /\ UNCHANGED arq_vars

NextReceiver ==
    \/ \E rcv_string \in Chunks : ReceiveChunk(rcv_string)
    \/ ReceiveNone

SpecReceiver == InitReceiver /\ [][NextReceiver]_vars

(***************************************************************************)
(* Frames whose SPP length field does not fit the bytes present.  The      *)
(* frame is what process_received takes from the queue: it pads it to 48   *)
(* bytes and calls parse_ax25 on a TM packet object; an exception in       *)
(* parse_ax25 ends the process_received thread.                            *)
(***************************************************************************)
InitLength ==
    /\ InitArq
    /\ codec \in { [op |-> "queued", frame |-> f, raised |-> FALSE,
                    thread |-> "running"] : f \in LengthFrames }

\* process_received takes the queued frame: one pass of its loop
ParseQueued ==
    /\ codec.op = "queued"
    /\ ProcessReceived(codec.frame)

NextLength == ParseQueued

SpecLength == InitLength /\ [][NextLength]_vars

(***************************************************************************)
(* Replies to single commands: the operator sends XMIT_COUNT, READ_MEM,    *)
(* GET_COMMS or MAC_TEST (or starts a science dump), and the replies       *)
(* arrive, possibly after a frame whose MAC does not verify.               *)
(***************************************************************************)
ReplyCommands == 1

ReplyFrames == 2

ReplyCommandInputs ==
    { [button_label |-> l, args |-> << 240, 1, 0, 0, 0, 0, 0, 0, 0 >>,
       dialog1_xmit |-> TRUE] :
         l \in { "XMIT_COUNT", "READ_MEM", "GET_COMMS", "MAC_TEST" } }
    \cup { [button_label |-> "XMIT_SCIENCE", args |-> DialogArgs("XMIT_SCIENCE", 255),
            dialog1_xmit |-> TRUE] }

NextReply ==
    \/ \E c \in ReplyCommandInputs :
          n_commands < ReplyCommands /\ ProcessCommand(c)
    \/ \E f \in CommandReplyFrames \cup { BadScienceFrame } :
          n_frames < ReplyFrames /\ ProcessReceived(f)
    \/ Timeout
    \/ CommandStep
    \/ FlushStep

SpecReply == Init /\ [][NextReply]_vars

(***************************************************************************)
(* NAK from the spacecraft: the operator has sent up to two commands that  *)
(* wait for their ACK, and a NAK, an ACK or a frame whose MAC does not     *)
(* verify arrives.  uplink_simulated_error_rate is above 0: the draw of    *)
(* every transmit may succeed or not.  The steps of the two threads come   *)
(* in any order, so a command can be appended while the NAK branch         *)
(* retransmits.                                                            *)
(***************************************************************************)
NakCommands == 2

NakFrames == 2

NakCommandInputs ==
    { [button_label |-> l, args |-> DialogArgs(l, 0), dialog1_xmit |-> TRUE] :
        l \in { "NOOP", "XMIT_COUNT", "GET_COMMS" } }

NakFrame == TmFrame(65535, << 6 >>, sc_mac_key)

AckFrame == TmFrame(65535, << 5 >>, sc_mac_key)

NextNak ==
    \/ \E c \in NakCommandInputs : n_commands < NakCommands /\ ProcessCommand(c)
    \/ \E f \in { NakFrame, AckFrame, BadScienceFrame } :
          n_frames < NakFrames /\ ProcessReceived(f)
    \/ Timeout
    \/ \E random \in BOOLEAN : CommandTransmit(random)
    \/ CommandRead
    \/ CommandWrite
    \/ CommandAppend
    \/ RetransmitClear
    \/ \E random \in BOOLEAN : Retransmit(random)
    \/ RetransmitNext

SpecNak == Init /\ [][NextNak]_vars

(***************************************************************************)
(* C1.  Every frame that process_received dispatches as a command (ACK,    *)
(* NAK, XMIT_COUNT, XMIT_HEALTH, XMIT_SCIENCE, READ_MEM, GET_COMMS,        *)
(* MAC_TEST) was run through __validate_packet and its MAC was found equal *)
(* to its trailer; a frame that was not validated (is_spp_packet false) is *)
(* never dispatched.                                                       *)
(***************************************************************************)
C1_DispatchOnlyAfterMacCheck ==
    (rx.event = "frame" /\ rx.branch = "dispatched")
        => (rx.is_spp_packet /\ rx.validation_mask = 0)

(***************************************************************************)
(* C3.  A receive timeout while a downlink is pending changes the          *)
(* controller's state exactly as one frame that fails the MAC check:       *)
(* retry_count is armed if it was negative,                                *)
(* expected_spacecraft_sequence_number advances, and outside dump mode one *)
(* entry is appended to tm_packets_to_nak.                                 *)
(***************************************************************************)
C3_TimeoutActsAsMacFailure ==
    [][ (Pending /\ tick' # tick /\ rx'.event = "timeout") =>
           /\ retry_count' = RetryArm(retry_count)
           /\ expected_spacecraft_sequence_number'
                 = sn_increment(expected_spacecraft_sequence_number)
           /\ (~ dump_mode =>
                 tm_packets_to_nak'
                    = Append(tm_packets_to_nak, expected_spacecraft_sequence_number))
      ]_vars

(***************************************************************************)
(* C5.  ground_sequence_number, tc_packets_waiting_for_ack,                *)
(* downlink_payloads_pending and dump_mode are written by the controller   *)
(* task (process_received) only: no step of process_command changes them.  *)
(***************************************************************************)
C5_ControllerIsOnlyWriter ==
    [][ (\/ ground_sequence_number' # ground_sequence_number
         \/ tc_packets_waiting_for_ack' # tc_packets_waiting_for_ack
         \/ downlink_payloads_pending' # downlink_payloads_pending
         \/ dump_mode' # dump_mode)
        => task' = "process_received" ]_vars

(***************************************************************************)
(* C2.  Starting idle and outside dump mode, once max_retries consecutive  *)
(* replies to a command have failed the MAC check and the controller waits *)
(* for the next frame, it has sent max_retries NAKs and one CEASE_XMIT and  *)
(* is idle with retry_count = -1.                                          *)
(***************************************************************************)
C2_RetriesThenCease ==
    (/\ ep.idle_start
     /\ ~ ep.overlap
     /\ ctl.pc = "idle"
     /\ ~ dump_mode
     /\ ep.good = 0
     /\ ep.other = 0
     /\ ep.bad >= max_retries)
        => (ep.naks = max_retries /\ ep.ceases = 1 /\ retry_count = -1)

(***************************************************************************)
(* C8.  After the controller has sent CEASE_XMIT, a fresh command (issued   *)
(* while the controller waits for a frame) whose replies all pass the MAC  *)
(* check is answered with ACKs only: the controller builds no NAK and no   *)
(* further CEASE_XMIT.                                                     *)
(***************************************************************************)
C8_FreshCommandAfterCease ==
    (ep.after_cease /\ ~ ep.overlap /\ ep.bad = 0 /\ ep.other = 0)
        => (ep.naks = 0 /\ ep.ceases = 0)

(***************************************************************************)
(* C9 as stated.  Between an XMIT_HEALTH / XMIT_SCIENCE command and the    *)
(* end of its downlink the controller sends at most max_retries NAKs       *)
(* (ep.dl_naks counts them when the window flush builds them).             *)
(***************************************************************************)
C9_BudgetPerDownlink == ep.dl_naks <= max_retries

(***************************************************************************)
(* C9 as the code has it.  The budget is per retry episode: from the MAC   *)
(* failure that arms retry_count to its reset to -1 the window flush has   *)
(* built exactly max_retries + 1 - retry_count NAKs, never more than       *)
(* max_retries; one fewer when the process_received thread has died in     *)
(* make_nak, where the counter was stepped and no NAK built.               *)
(***************************************************************************)
C9_BudgetPerEpisode ==
    retry_count >= 1 =>
        /\ armed_naks = max_retries + 1 - retry_count
                           - (IF process_thread = "dead" THEN 1 ELSE 0)
        /\ armed_naks <= max_retries

\* the last NAK of an episode has been sent
C9_BudgetSpent ==
    /\ ep.cmd = "XMIT_SCIENCE"
    /\ ctl.pc = "idle"
    /\ ep.active
    /\ retry_count = 1
    /\ armed_naks = max_retries
    /\ ep.dl_naks = max_retries

(***************************************************************************)
(* C4.  Liveness under radio silence: whenever a downlink is pending, the  *)
(* timeouts alone lead to a state where the controller has sent a NAK or   *)
(* a CEASE_XMIT and is idle.                                               *)
(***************************************************************************)
C4_SilenceIsResolved ==
    Pending ~> (Idle /\ ep.naks + ep.ceases > 0)

(***************************************************************************)
(* C6.  For a downlink of N packets that all pass the MAC check, window W, *)
(* outside dump mode and starting idle (the command is issued while the    *)
(* controller waits for a frame), an ACK goes out exactly when the window  *)
(* is full or the downlink is complete.  Whenever the controller waits for *)
(* the next frame: after k < N packets k div W                             *)
(* ACKs and k mod W packets waiting to be acknowledged; after the N-th     *)
(* packet ceil(N/W) ACKs, no NAK, tc_packets_waiting_for_ack and           *)
(* tm_packets_to_ack empty and retry_count = -1.  With W = 1 and one       *)
(* XMIT_HEALTH reply that is exactly one ACK.                              *)
(***************************************************************************)
C6_AckPerWindow ==
    (/\ ep.cmd \in { "XMIT_HEALTH", "XMIT_SCIENCE" }
     /\ ep.idle_start
     /\ ~ ep.overlap
     /\ gui.pc = "idle"
     /\ ctl.pc = "idle"
     /\ ~ dump_mode
     /\ ep.bad = 0
     /\ ep.other = 0
     /\ ep.good <= ep.requested)
        => /\ ep.naks = 0
           /\ ep.ceases = 0
           /\ IF ep.good < ep.requested
              THEN /\ ep.acks = ep.good \div ep.window
                   /\ Len(tm_packets_to_ack) = ep.good % ep.window
              ELSE /\ ep.acks = (ep.requested + ep.window - 1) \div ep.window
                   /\ tc_packets_waiting_for_ack = << >>
                   /\ tm_packets_to_ack = << >>
                   /\ retry_count = -1
                   /\ downlink_payloads_pending = 0

\* a downlink of MaxScience packets in windows of 2 is complete, the last
\* window being a short one
C6_DownlinkComplete ==
    /\ ep.cmd = "XMIT_SCIENCE"
    /\ ep.idle_start
    /\ ~ ep.overlap
    /\ gui.pc = "idle"
    /\ ctl.pc = "idle"
    /\ ep.requested = MaxScience
    /\ ep.window = 2
    /\ ep.good = MaxScience
    /\ ep.bad = 0
    /\ ep.other = 0
    /\ ep.acks = (MaxScience + 1) \div 2

(***************************************************************************)
(* C7.  While dump_mode is true the controller, whatever frames and        *)
(* timeouts it has taken, builds no ACK, no NAK and no CEASE_XMIT,         *)
(* transmits nothing and appends nothing to tm_packets_to_nak: no step of  *)
(* process_received taken with dump_mode true is the build of the window   *)
(* flush, puts a packet on the radio or lengthens tm_packets_to_nak.       *)
(***************************************************************************)
C7_DumpModeIsSilent ==
    [][ (dump_mode /\ task' = "process_received")
          => /\ ctl.pc # "build"
             /\ radio_tx' = << >>
             /\ Len(tm_packets_to_nak') <= Len(tm_packets_to_nak)
      ]_vars

(***************************************************************************)
(* C10.  Inverting any single bit of the timestamp, the sequence number or *)
(* the payload of a packet built by __spp_wrap makes __validate_packet     *)
(* return a non-zero validation_mask.                                      *)
(***************************************************************************)
C10_AnyBitFlipDetected ==
    codec.op = "tampered" => codec.validation_mask # 0

(***************************************************************************)
(* C11 as stated.  For every n in 1..65535,                                *)
(* sn_increment(sn_decrement(n)) = n.                                      *)
(***************************************************************************)
C11_IncrementUndoesDecrement ==
    codec.op = "dec_inc" => codec.result = codec.n

(***************************************************************************)
(* C11 as the code has it.  sn_increment(sn_decrement(n)) = n for every n  *)
(* in 2..65535; sn_decrement(1) is 1, so for n = 1 the result is 2.        *)
(***************************************************************************)
C11_IncrementUndoesDecrementAboveOne ==
    codec.op = "dec_inc" =>
        codec.result = IF codec.n = 1 THEN 2 ELSE codec.n

\* the round trip was taken from the last sequence number
C11_RoundTripAtTop ==
    codec.op = "dec_inc" /\ codec.n = 65535 /\ codec.result = 65535

(***************************************************************************)
(* C12.  sn_increment and sn_decrement keep a sequence number in 1..65535, *)
(* also at the ends of the range, so ground_sequence_number is always in   *)
(* 1..65535 and every TC handed to the radio carries a sequence number in  *)
(* 1..65535, never 0.                                                      *)
(***************************************************************************)
C12_SequenceNumberNeverZero ==
    /\ \A n \in { 1, 2, 65534, 65535 } :
          sn_increment(n) \in 1..65535 /\ sn_decrement(n) \in 1..65535
    /\ ground_sequence_number \in 1..65535
    /\ \A i \in 1..Len(radio_tx) :
          radio_tx[i].kind = "TC" => radio_tx[i].sequence_number \in 1..65535

\* after the wraparound (the command before it carried 65535) the controller
\* has transmitted an ACK with the first sequence number, 1
C12_WrappedAround ==
    /\ ground_sequence_number = 1
    /\ gui.pc = "idle"
    /\ ctl.pc = "read"
    /\ ctl.flush = "ack"
    /\ \E i \in 1..Len(radio_tx) :
          /\ radio_tx[i].kind = "TC"
          /\ radio_tx[i].by = "process_received"
          /\ radio_tx[i].sequence_number = 1

(***************************************************************************)
(* C13.  Decrypting what GsCipher.encrypt made of a 253-byte uplink frame  *)
(* gives the frame back, with the same length and the same bytes.          *)
(***************************************************************************)
C13_DecryptUndoesEncrypt ==
    (codec.op = "round_trip" /\ Len(codec.frame) = 253)
        => codec.out = codec.frame

(***************************************************************************)
(* C14.  Whatever frame of at least 16 bytes GsCipher.encrypt is given, it *)
(* returns 253 bytes: the first 16 are the first 16 of the input and the   *)
(* last 5 are zero.                                                        *)
(***************************************************************************)
C14_EncryptedFrameShape ==
    (codec.op = "encrypted" /\ Len(codec.frame) >= 16)
        => /\ Len(codec.out) = 253
           /\ Slice(codec.out, 0, 16) = Slice(codec.frame, 0, 16)
           /\ SliceFrom(codec.out, 248) = Zeros(5)

\* frames shorter and longer than 253 bytes have been encrypted
C14_ShortAndLongEncrypted ==
    /\ codec.op = "encrypted"
    /\ Len(codec.frame) > 253
    /\ Len(codec.out) = 253
    /\ \E p \in codec.seen : Len(p[1]) = 16 /\ Len(p[2]) = 253

(***************************************************************************)
(* C15.  The ciphertext of a frame depends on the frame alone: one frame   *)
(* encrypted twice gives the same bytes both times, whatever was encrypted *)
(* or decrypted in between.                                                *)
(***************************************************************************)
C15_EncryptIsFunctionOfFrame ==
    \A p, q \in codec.seen : p[1] = q[1] => p[2] = q[2]

\* a frame is encrypted a second time after another frame was decrypted and
\* the chaining value of the cipher object has moved away from the IV
C15_EncryptedAgain ==
    /\ codec.op = "encrypted"
    /\ codec.log = << "encrypt", "decrypt", "encrypt" >>
    /\ Cardinality(codec.seen) = 1
    /\ Len(codec.frame) = 253

(***************************************************************************)
(* C16.  A TM or TC packet built by __spp_wrap and read back by            *)
(* __spp_unwrap and __validate_packet has the packet type, the sequence    *)
(* number and the payload it was built from and a validation mask of 0,    *)
(* and its length field is 27 plus the payload length.                     *)
(***************************************************************************)
C16_SppRoundTrip ==
    codec.op = "spp_unwrapped"
        => /\ ~ codec.read.raised
           /\ codec.read.packet_type = codec.packet_type
           /\ codec.read.sequence_number = codec.sequence_number
           /\ codec.read.spp_data = codec.spp_data
           /\ codec.validation_mask = 0
           /\ codec.read.packet_data_length = 27 + Len(codec.spp_data)

\* a TC packet with the highest sequence number and a payload long enough
\* to use both bytes of the length field has made the round trip
C16_LongTcRoundTrip ==
    /\ codec.op = "spp_unwrapped"
    /\ codec.packet_type = 24
    /\ codec.sequence_number = 65535
    /\ Len(codec.spp_data) = LongPayload
    /\ codec.read.packet_data_length > 255
    /\ codec.read.spp_data = codec.spp_data

(***************************************************************************)
(* C17.  kiss_unwrap gives back the bytes kiss_wrap was given, whatever    *)
(* they are, bytes 0xC0 and 0xDB included.                                 *)
(***************************************************************************)
C17_KissRoundTrip ==
    codec.op = "kiss_unwrapped" => codec.unwrapped = codec.ax25_packet

\* a packet holding 0xDB, 0xDC and 0xC0 in a row has made the round trip
\* and was longer on the wire by its two escapes
C17_EscapedRoundTrip ==
    /\ codec.op = "kiss_unwrapped"
    /\ codec.ax25_packet = << FESC, TFEND, FEND >>
    /\ Len(codec.kiss_packet) = 3 + Len(codec.ax25_packet) + 2
    /\ codec.unwrapped = codec.ax25_packet

(***************************************************************************)
(* C18.  __ax25_unwrap of a frame made by __ax25_wrap gives the 16-byte    *)
(* header and exactly the bytes of the SPP packet, for TM frames and for   *)
(* TC frames padded with zeros to 253 bytes, whatever the payload length.  *)
(***************************************************************************)
C18_Ax25RoundTrip ==
    codec.op = "ax25_unwrapped"
        => /\ Slice(codec.unwrapped, 0, 16) = ax25_header
           /\ SliceFrom(codec.unwrapped, 16) = codec.spp_packet

\* a TC frame that was padded to 253 bytes has been taken apart
C18_PaddedTcUnwrapped ==
    /\ codec.op = "ax25_unwrapped"
    /\ codec.packet_type = 24
    /\ codec.maxsize
    /\ Len(codec.ax25_packet) = 253
    /\ Len(codec.spp_packet) = 32
    /\ SliceFrom(codec.unwrapped, 16) = codec.spp_packet

(***************************************************************************)
(* C19.  For callsigns of one to six printable characters and SSIDs 0..15  *)
(* init_ax25_header returns 16 bytes: each callsign in six bytes, shorter  *)
(* ones filled with spaces, every character shifted left one bit; the SSID *)
(* bytes (ssid << 1) | 0x60 and (ssid << 1) | 0x61; then 0x03 and 0xF0.    *)
(***************************************************************************)
C19_HeaderIsSixteenBytes ==
    codec.op \in { "header", "raised" }
        => LET padded(c) == SubSeq(c \o << 32, 32, 32, 32, 32 >>, 1, 6)
               shifted(c) == [i \in 1..6 |-> padded(c)[i] * 2]
           IN  /\ codec.op = "header"
               /\ Len(codec.header) = 16
               /\ codec.header =
                    shifted(codec.dst_callsign)
                    \o << codec.dst_ssid * 2 + 96 >>
                    \o shifted(codec.src_callsign)
                    \o << codec.src_ssid * 2 + 97 >>
                    \o << 3, 240 >>

(***************************************************************************)
(* C20.  A frame is classified as an OA packet only when the 16 bytes      *)
(* after the AX.25 header are the OA key and exactly one byte follows      *)
(* them, the command byte, with the value 0x31, 0x33 or 0x34.              *)
(***************************************************************************)
C20_OaOnlyForOaCommands ==
    (codec.op = "classified" /\ codec.is_oa_packet)
        => /\ Slice(codec.frame, 16, 32) = oa_key
           /\ Len(codec.frame) = 33
           /\ At(codec.frame, 32) \in { 49, 51, 52 }

(***************************************************************************)
(* C21.  The receiver task survives every byte stream: a KISS frame of     *)
(* fewer than 14 data bytes (the empty frame C0 C0 included) or with a bad *)
(* escape never ends the task with an exception.                           *)
(***************************************************************************)
C21_ReceiverSurvives == codec.running

(***************************************************************************)
(* C22.  parse_ax25 on a frame padded to 48 bytes raises no IndexError     *)
(* whatever the SPP length field of the frame declares, and the            *)
(* process_received loop goes on after it.                                 *)
(***************************************************************************)
C22_ParseNeverRaises ==
    codec.op = "parsed" => (~ codec.raised /\ codec.thread = "running")

(***************************************************************************)
(* The buttons: every button of the window, with its dialog confirmed,     *)
(* cancelled or holding text that is no number, pressed while the          *)
(* process_received thread takes science packets, MAC-failed frames, ACKs  *)
(* and NAKs from its queue, the steps of the two threads in any order.     *)
(***************************************************************************)
ButtonCommands == 1

ButtonFrames == 2

ButtonFrameInputs == { GoodScienceFrame, BadScienceFrame, NakFrame, AckFrame }

NextButton ==
    \/ \E c \in CommandInputs : n_commands < ButtonCommands /\ ProcessCommand(c)
    \/ \E f \in ButtonFrameInputs :
          n_frames < ButtonFrames /\ ProcessReceived(f)
    \/ CommandStep
    \/ PayloadStep
    \/ FlushStep
    \/ RetransmitStep

SpecButton == Init /\ [][NextButton]_vars

(***************************************************************************)
(* C23.  Every button press handled by process_command, step by step: the  *)
(* packet of a sequenced command is built with ground_sequence_number (for *)
(* XMIT_HEALTH, XMIT_SCIENCE and SET_COMMS after the handler has written   *)
(* the globals of the command);                                            *)
(* after it is transmitted the handler reads ground_sequence_number and    *)
(* stores one sn_increment of it, and then appends the packet to           *)
(* tc_packets_waiting_for_ack exactly when it expects a reply (every       *)
(* sequenced command except XMIT_SCIENCE in dump mode); an OA command      *)
(* returns after its transmission, and an unrecognized or cancelled one    *)
(* before it, with both variables unchanged.                               *)
(***************************************************************************)
C23_CommandBookkeeping ==
    [][ task' = "process_command"
          => /\ gui.pc = "idle"
                  => /\ UNCHANGED << ground_sequence_number,
                                     tc_packets_waiting_for_ack >>
                     /\ (gui'.pc = "transmit" /\ gui'.packet.kind = "TC")
                           => gui'.packet.sequence_number = ground_sequence_number
             /\ gui.pc = "dump"
                  => /\ UNCHANGED << ground_sequence_number,
                                     tc_packets_waiting_for_ack >>
                     /\ gui'.pc \in { "build", "idle" }
             /\ gui.pc = "build"
                  => /\ UNCHANGED << ground_sequence_number,
                                     tc_packets_waiting_for_ack >>
                     /\ gui'.pc = "transmit"
                     /\ gui'.packet.kind = "TC"
                     /\ gui'.packet.sequence_number = ground_sequence_number
             /\ gui.pc = "transmit"
                  => /\ UNCHANGED << ground_sequence_number,
                                     tc_packets_waiting_for_ack >>
                     /\ radio_tx' = << gui.packet >>
                     /\ gui'.pc = IF gui.packet.kind = "TC" THEN "read" ELSE "idle"
             /\ gui.pc = "read"
                  => /\ UNCHANGED << ground_sequence_number,
                                     tc_packets_waiting_for_ack >>
                     /\ gui'.read = ground_sequence_number
             /\ gui.pc = "write"
                  => /\ ground_sequence_number' = sn_increment(gui.read)
                     /\ UNCHANGED tc_packets_waiting_for_ack
                     /\ gui'.pc = IF gui.packet.spp_data = << 3, 255 >>
                                  THEN "idle" ELSE "append"
             /\ gui.pc = "append"
                  => /\ UNCHANGED ground_sequence_number
                     /\ tc_packets_waiting_for_ack' =
                           Append(tc_packets_waiting_for_ack, gui.packet)
                     /\ gui'.pc = "idle"
      ]_vars

\* XMIT_SCIENCE in dump mode was sent with sequence number 1 and its handler
\* has returned: the sequence number advanced and the packet is not waiting
\* for an ACK
C23_DumpCommandNotTracked ==
    /\ task = "process_command"
    /\ gui.pc = "idle"
    /\ ep.cmd = "XMIT_SCIENCE"
    /\ ep.requested = 255
    /\ dump_mode
    /\ n_frames = 0
    /\ ground_sequence_number = 2
    /\ tc_packets_waiting_for_ack = << >>

(***************************************************************************)
(* C24.  After every window flush of process_received, whether it sent the *)
(* ACK, the NAK or the CEASE_XMIT of retry exhaustion, tm_packets_to_ack   *)
(* and tm_packets_to_nak are empty, and after the CEASE_XMIT retry_count   *)
(* is -1.                                                                  *)
(***************************************************************************)
C24_ListsEmptyAfterFlush ==
    [][ (ctl.pc = "write" /\ ctl'.pc = "idle")
          => /\ tm_packets_to_ack' = << >>
             /\ tm_packets_to_nak' = << >>
             /\ (ctl.flush = "cease" => retry_count' = -1) ]_vars

(***************************************************************************)
(* C25.  After every iteration of the process_received loop the two lists  *)
(* together hold fewer packets than the window size:                       *)
(* len(tm_packets_to_ack) + len(tm_packets_to_nak) < tm_packet_window,     *)
(* whatever frames and timeouts arrive.                                    *)
(***************************************************************************)
C25_ListsWithinWindow ==
    (task = "process_received" /\ ctl.pc = "idle")
        => Len(tm_packets_to_ack) + Len(tm_packets_to_nak) < tm_packet_window

(***************************************************************************)
(* C26.  From the MAC failure that arms retry_count, as long as every      *)
(* window flush finds tm_packets_to_nak non-empty: each of the first       *)
(* max_retries flushes builds and transmits one NAK and no CEASE_XMIT, and *)
(* the next flush builds and transmits one CEASE_XMIT and no NAK, after    *)
(* which retry_count is -1.  armed_naks counts the NAKs built since the    *)
(* counter was armed.                                                      *)
(***************************************************************************)
C26_NaksThenCease ==
    [][ /\ (/\ ctl.pc = "build"
            /\ task' = "process_received"
            /\ retry_count >= 0
            /\ tm_packets_to_nak # << >>)
              => IF armed_naks = max_retries
                 THEN /\ ctl'.flush = "cease"
                      /\ ctl'.packet.spp_data[1] = COMMAND_CODES.CEASE_XMIT
                      /\ retry_count' = 0
                      /\ armed_naks' = armed_naks
                 ELSE /\ armed_naks < max_retries
                      /\ ctl'.flush = "nak"
                      /\ ctl'.packet.spp_data[1] = COMMAND_CODES.NAK
                      /\ armed_naks' = armed_naks + 1
                      /\ retry_count' = max_retries + 1 - armed_naks'
        /\ (ctl.pc = "transmit" /\ ctl'.pc = "read")
              => radio_tx' = << ctl.packet >>
        /\ (ctl.pc = "write" /\ ctl'.pc = "idle" /\ ctl.flush = "cease")
              => retry_count' = -1
        /\ (ctl.pc = "write" /\ ctl'.pc = "idle" /\ ctl.flush = "nak")
              => retry_count' = retry_count
      ]_vars

(***************************************************************************)
(* C27.  Outside dump mode a MAC-valid reply whose command is XMIT_COUNT,  *)
(* READ_MEM, GET_COMMS or MAC_TEST makes process_received clear            *)
(* tc_packets_waiting_for_ack, set expected_spacecraft_sequence_number to  *)
(* sn_increment of the reply's sequence number and build one ACK for       *)
(* transmission: the reply is put on tm_packets_to_ack and the iteration   *)
(* goes on to the window flush with downlink_complete set.                 *)
(***************************************************************************)
C27_ReplyIsAcknowledged ==
    [][ \A f \in CommandReplyFrames :
          (~ dump_mode /\ ProcessReceived(f))
            => /\ tc_packets_waiting_for_ack' = << >>
               /\ expected_spacecraft_sequence_number' =
                     sn_increment(Parsed[f].sequence_number)
               /\ tm_packets_to_ack' =
                     Append(tm_packets_to_ack, Parsed[f].sequence_number)
               /\ ctl'.pc = "flush_check"
               /\ ctl'.downlink_complete
      ]_vars

(***************************************************************************)
(* C28, as the code has it.  On a MAC-valid NAK process_received calls     *)
(* transmit on the members of tc_packets_waiting_for_ack once each, in     *)
(* list order: the first, then after every transmission the next of the    *)
(* list as it is by then, up to the last.  Before a transmission the       *)
(* member's simulated_error is cleared, and it stays cleared while         *)
(* transmit sleeps.  Every transmission is made with the data and the      *)
(* sequence number of the member; whether the frame or 0xFF bytes go to    *)
(* the radio is decided by the uplink error simulation of transmit, and    *)
(* the member's simulated_error is set to that outcome.                    *)
(* process_received builds no ACK, NAK or CEASE_XMIT of its own and leaves *)
(* the members of tc_packets_waiting_for_ack, but for simulated_error,     *)
(* ground_sequence_number and expected_spacecraft_sequence_number as they  *)
(* were.                                                                   *)
(***************************************************************************)
C28_NakRetransmitsWaiting ==
    [][ /\ ProcessReceived(NakFrame)
          => /\ Parsed[NakFrame].validation_mask = 0
             /\ ctl'.flush = "none"
             /\ radio_tx' = << >>
             /\ IF tc_packets_waiting_for_ack = << >> THEN ctl'.pc = "idle"
                ELSE ctl'.pc = "retransmit" /\ ctl'.idx = 1
             /\ UNCHANGED << tc_packets_waiting_for_ack, ground_sequence_number,
                             expected_spacecraft_sequence_number >>
        /\ (ctl.pc = "retransmit" /\ task' = "process_received")
          => /\ radio_tx' = << >>
             /\ ctl'.pc = "sleep"
             /\ ctl'.idx = ctl.idx
             /\ ctl'.flush = "none"
             /\ tc_packets_waiting_for_ack' =
                   [tc_packets_waiting_for_ack EXCEPT
                      ![ctl.idx] = [@ EXCEPT !.simulated_error = FALSE]]
             /\ UNCHANGED << ground_sequence_number,
                             expected_spacecraft_sequence_number >>
        /\ (ctl.pc = "sleep" /\ task' = "process_received")
          => /\ Len(radio_tx') = 1
             /\ ~ tc_packets_waiting_for_ack[ctl.idx].simulated_error
             /\ radio_tx'[1].kind = tc_packets_waiting_for_ack[ctl.idx].kind
             /\ radio_tx'[1].spp_data = tc_packets_waiting_for_ack[ctl.idx].spp_data
             /\ radio_tx'[1].sequence_number =
                   tc_packets_waiting_for_ack[ctl.idx].sequence_number
             /\ radio_tx'[1].by = "retransmit"
             /\ ctl'.pc = "fetch"
             /\ ctl'.idx = ctl.idx
             /\ ctl'.flush = "none"
             /\ tc_packets_waiting_for_ack' =
                   [tc_packets_waiting_for_ack EXCEPT
                      ![ctl.idx] = [@ EXCEPT !.simulated_error =
                                               radio_tx'[1].simulated_error]]
             /\ UNCHANGED << ground_sequence_number,
                             expected_spacecraft_sequence_number >>
        /\ (ctl.pc = "fetch" /\ task' = "process_received")
          => /\ radio_tx' = << >>
             /\ ctl'.flush = "none"
             /\ IF ctl.idx = Len(tc_packets_waiting_for_ack) THEN ctl'.pc = "idle"
                ELSE ctl'.pc = "retransmit" /\ ctl'.idx = ctl.idx + 1
             /\ UNCHANGED << tc_packets_waiting_for_ack, ground_sequence_number,
                             expected_spacecraft_sequence_number >>
      ]_vars

\* two different commands were waiting, the first first sent as its frame
\* and the second as 0xFF bytes, and the second has just been
\* retransmitted, after the first, as 0xFF bytes again
C28_TwoRetransmitted ==
    /\ task = "process_received"
    /\ rx.branch = "dispatched"
    /\ ctl.pc = "fetch"
    /\ ctl.idx = 2
    /\ ctl.marked
    /\ gui.pc = "idle"
    /\ Len(radio_tx) = 1
    /\ radio_tx[1].by = "retransmit"
    /\ radio_tx[1].sequence_number = 2
    /\ radio_tx[1].simulated_error
    /\ Len(tc_packets_waiting_for_ack) = 2
    /\ tc_packets_waiting_for_ack[1].sequence_number = 1
    /\ ~ tc_packets_waiting_for_ack[1].simulated_error
    /\ tc_packets_waiting_for_ack[2].sequence_number = 2
    /\ tc_packets_waiting_for_ack[2].simulated_error
    /\ radio_tx[1].spp_data = tc_packets_waiting_for_ack[2].spp_data
    /\ radio_tx[1].spp_data # tc_packets_waiting_for_ack[1].spp_data
    /\ ground_sequence_number = 3

(***************************************************************************)
(* C28, as the specification has it.  A retransmission after a MAC-valid   *)
(* NAK puts on the air the frame bytes its packet was last sent with       *)
(* (ctl.marked), and with the transmission made the member of              *)
(* tc_packets_waiting_for_ack is as it was when the NAK came.              *)
(***************************************************************************)
C28_RetransmittedAsFirstSent ==
    [][ (ctl.pc = "sleep" /\ task' = "process_received")
          => /\ Len(radio_tx') = 1
             /\ radio_tx'[1].spp_data = tc_packets_waiting_for_ack[ctl.idx].spp_data
             /\ radio_tx'[1].sequence_number =
                   tc_packets_waiting_for_ack[ctl.idx].sequence_number
             /\ radio_tx'[1].simulated_error = ctl.marked
             /\ tc_packets_waiting_for_ack'[ctl.idx].simulated_error = ctl.marked
      ]_vars

(***************************************************************************)
(* C29.  A timeout of process_received stands in the synthetic bad packet, *)
(* whose command parses as 0xFF: the step does not take the MAC-failure    *)
(* path, puts nothing on the display queue, transmits nothing, and leaves  *)
(* retry_count, expected_spacecraft_sequence_number,                       *)
(* tc_packets_waiting_for_ack, tm_packets_to_ack, tm_packets_to_nak and    *)
(* downlink_payloads_pending unchanged.                                    *)
(***************************************************************************)
C29_TimeoutChangesNothing ==
    [][ Timeout
          => /\ Parsed[ax25_badpacket].is_spp_packet
             /\ Parsed[ax25_badpacket].command = 255
             /\ ~ Displayed(Parsed[ax25_badpacket])
             /\ rx'.branch = "ignored"
             /\ radio_tx' = << >>
             /\ ctl' = CtlIdle
             /\ UNCHANGED << retry_count, expected_spacecraft_sequence_number,
                             tc_packets_waiting_for_ack, tm_packets_to_ack,
                             tm_packets_to_nak, downlink_payloads_pending >>
      ]_vars

\* a timeout was taken with a command waiting, the retry counter armed and
\* a packet to NAK
C29_TimeoutWhilePending ==
    /\ rx.event = "timeout"
    /\ rx.branch = "ignored"
    /\ rx.validation_mask # 0
    /\ retry_count = max_retries + 1
    /\ tc_packets_waiting_for_ack # << >>
    /\ tm_packets_to_nak # << >>
    /\ radio_tx = << >>

(***************************************************************************)
(* The GUI thread and the process_received thread, statement by statement. *)
(* process_command runs on the GTK main thread, process_received on its    *)
(* own thread; both read ground_sequence_number when they build a packet   *)
(* (set_sequence_number), transmit it, then read the variable again and    *)
(* store its successor, with no lock.  codec holds the history: the packets *)
(* transmitted (sent), the command last built (command) and whether the    *)
(* controller has processed its reply since (answered).                    *)
(***************************************************************************)
RaceCommands == 2

RaceFrames == 2

RaceCommandInputs ==
    { [button_label |-> l, args |-> DialogArgs(l, 0), dialog1_xmit |-> TRUE] :
         l \in { "NOOP", "XMIT_COUNT" } }

RaceFrameInputs ==
    { TmFrame(1, << 1, 0, 3, 0, 2 >>, sc_mac_key), BadScienceFrame, NakFrame }

InitRace ==
    /\ InitArq
    /\ codec = [op |-> "race", sent |-> << >>, command |-> NoPacket,
                answered |-> FALSE]

NextRace ==
    \/ \E c \in RaceCommandInputs : n_commands < RaceCommands /\ ProcessCommand(c)
    \/ \E f \in RaceFrameInputs : n_frames < RaceFrames /\ ProcessReceived(f)
    \/ CommandSend
    \/ FlushStep
    \/ RetransmitStep

SpecRace == InitRace /\ [][NextRace]_vars

(***************************************************************************)
(* C30.  Under every interleaving of the GUI command thread and the        *)
(* process_received thread, two TC packets built for different             *)
(* transmissions (operator commands and the controller's ACK, NAK and      *)
(* CEASE_XMIT; not the retransmissions after a NAK) carry different        *)
(* sequence numbers, fewer than 65535 packets having been sent between     *)
(* them.                                                                   *)
(***************************************************************************)
C30_SequenceNumbersDistinct ==
    codec.op = "race" =>
        \A i, j \in 1..Len(codec.sent) :
            (i < j /\ j - i < 65535)
                => codec.sent[i].sequence_number # codec.sent[j].sequence_number

(***************************************************************************)
(* C31.  Under every interleaving of process_command and process_received, *)
(* once the controller has processed the spacecraft's MAC-valid reply to a *)
(* command, that command is not in tc_packets_waiting_for_ack (so a later  *)
(* NAK cannot retransmit it).  Stated for the command last transmitted,    *)
(* once its handler has returned.                                          *)
(***************************************************************************)
C31_AnsweredNotWaiting ==
    (codec.op = "race" /\ gui.pc = "idle" /\ codec.answered)
        => \A i \in 1..Len(tc_packets_waiting_for_ack) :
              tc_packets_waiting_for_ack[i] # codec.command

(***************************************************************************)
(* C32.  A telemetry packet is counted once: an XMIT_SCIENCE packet whose  *)
(* sequence number the controller has already accepted in this downlink    *)
(* (the spacecraft retransmits a window) does not decrement                *)
(* downlink_payloads_pending a second time.  GoodScienceFrame is the one   *)
(* MAC-valid science frame of SpecRetry, so every arrival after the first  *)
(* carries an accepted sequence number: the store the science branch makes *)
(* for it leaves downlink_payloads_pending as it was.                      *)
(***************************************************************************)
C32_CountedOnce ==
    [][ (/\ ep.cmd = "XMIT_SCIENCE"
         /\ ep.good >= 2
         /\ ~ ep.overlap
         /\ ctl.pc = "pending_write"
         /\ task' = "process_received")
          => downlink_payloads_pending' = downlink_payloads_pending ]_vars

(***************************************************************************)
(* C33.  expected_spacecraft_sequence_number is in 1..65535 in every       *)
(* reachable state, from start-up on, and no NAK sent by the controller    *)
(* lists the sequence number 0.                                            *)
(***************************************************************************)
C33_NoZeroSequenceNumber ==
    /\ expected_spacecraft_sequence_number \in 1..65535
    /\ \A i \in 1..Len(radio_tx) :
          (radio_tx[i].by = "process_received" /\ radio_tx[i].spp_data[1] = 6)
            => \A k \in 1..radio_tx[i].spp_data[2] :
                  from_bigendian(Slice(radio_tx[i].spp_data, 2 * k, 2 * k + 2), 2) # 0

(***************************************************************************)
(* Dump mode: the operator sends XMIT_SCIENCE with count 0xFF, or another  *)
(* command, while process_received takes science packets, MAC-failed       *)
(* frames, the replies to XMIT_COUNT, READ_MEM and GET_COMMS and timeouts  *)
(* from its queue, the steps of the two threads in any order.              *)
(***************************************************************************)
DumpCommands == 1

DumpFrames == 3

DumpCommandInputs ==
    { [button_label |-> "XMIT_SCIENCE", args |-> DialogArgs("XMIT_SCIENCE", n),
       dialog1_xmit |-> TRUE] : n \in { 1, 255 } }
    \cup { [button_label |-> l, args |-> DialogArgs(l, 0), dialog1_xmit |-> TRUE] :
              l \in { "XMIT_HEALTH", "XMIT_COUNT" } }

\* the replies to XMIT_COUNT, READ_MEM and GET_COMMS
DumpReplyFrames ==
    { TmFrame(1, d, sc_mac_key) :
        d \in { << 1, 0, 3, 0, 2 >>, << 8, 0, 240, 1, 2 >>, << 12, 0 >> } }

NextDump ==
    \/ \E c \in DumpCommandInputs : n_commands < DumpCommands /\ ProcessCommand(c)
    \/ \E f \in DumpReplyFrames \cup { GoodScienceFrame, BadScienceFrame } :
          n_frames < DumpFrames /\ ProcessReceived(f)
    \/ Timeout
    \/ CommandStep
    \/ PayloadStep
    \/ FlushStep

SpecDump == Init /\ [][NextDump]_vars

(***************************************************************************)
(* C34.  process_received never writes dump_mode: once a dump has been     *)
(* commanded, dump_mode stays true through every inbound frame and         *)
(* timeout, and while it is true the controller sends nothing, no ACK and  *)
(* no NAK, not even for XMIT_COUNT, READ_MEM or GET_COMMS replies;         *)
(* dump_mode ends only when the operator issues XMIT_HEALTH or an          *)
(* XMIT_SCIENCE whose count is not 0xFF.                                   *)
(***************************************************************************)
C34_DumpModeStays ==
    [][ /\ task' = "process_received" => dump_mode' = dump_mode
        /\ (dump_mode /\ task' = "process_received") => radio_tx' = << >>
        /\ (dump_mode /\ ~ dump_mode')
              => /\ task' = "process_command"
                 /\ gui.c.button_label \in { "XMIT_HEALTH", "XMIT_SCIENCE" }
                 /\ gui.c.button_label = "XMIT_SCIENCE" => gui.c.args[1] # 255
      ]_vars

(***************************************************************************)
(* Reassembly: the byte stream kiss_wrap(p1) ... kiss_wrap(pn) of frames   *)
(* from the spacecraft reaches the KISS branch of receive_packet in chunks *)
(* of any length (radio.receive returns what recv(512) delivered).         *)
(***************************************************************************)
MaxStreamFrames == 2

\* frames of 14 bytes and more whose source is the spacecraft; two of them
\* hold FEND and FESC bytes
StreamFrames ==
    { SubSeq(sc_ax25_header, 1, 14),
      sc_ax25_header \o << FEND, FESC, TFEND, 0, FESC >>,
      TmFrame(1, << 2, 192, 219 >>, sc_mac_key) }

StreamFrameSeqs ==
    UNION { [1..n -> StreamFrames] : n \in 1..MaxStreamFrames }

RECURSIVE KissStream(_)
KissStream(frames) ==
    IF frames = << >> THEN << >>
    ELSE kiss_wrap(Head(frames)) \o KissStream(Tail(frames))

InitStream ==
    /\ InitArq
    /\ codec \in { [op |-> "started", frames |-> fs, stream |-> KissStream(fs),
                    pos |-> 0, n_chunks |-> 0, split |-> FALSE,
                    in_kiss_packet |-> FALSE, rcv_buffer |-> << >>,
                    running |-> TRUE, q_receive_packet |-> << >>] :
                   fs \in StreamFrameSeqs }

\* lengths of the chunks recv delivers: single bytes, which put a chunk
\* boundary at every position, short and long pieces, and all that is left
ChunkLengths == { 1, 2, 3, 7, 20, 512 }

\* radio.receive returns the next n bytes of the stream (fewer at its end);
\* n_chunks counts the chunks up to four
ReceiveNext(n) ==
    /\ codec.running
    /\ codec.pos < Len(codec.stream)
    /\ LET end == Min(codec.pos + n, Len(codec.stream))
           rcv_string == SubSeq(codec.stream, codec.pos + 1, end)
           r == ReceiveBytes(codec, rcv_string)
       IN  codec' = [r EXCEPT !.op = "received",
                              !.pos = end,
                              !.n_chunks = Min(@ + 1, 4),
                              !.split = @ \/ r.in_kiss_packet]
    /\ UNCHANGED arq_vars

NextStream == \E n \in ChunkLengths : ReceiveNext(n)

SpecStream == InitStream /\ [][NextStream]_vars

(***************************************************************************)
(* C35.  For a byte stream kiss_wrap(p1) ... kiss_wrap(pn) of frames of at *)
(* least 14 bytes from a foreign callsign, handed over in arbitrary        *)
(* chunks, the KISS branch of receive_packet puts exactly p1, ..., pn on   *)
(* q_receive_packet, in that order: the task keeps running, the queue is   *)
(* always a prefix of the frames, and it holds all of them when the stream *)
(* has been read.                                                          *)
(***************************************************************************)
C35_FramesReassembled ==
    codec.op \in { "started", "received" } /\ "stream" \in DOMAIN codec
        => /\ codec.running
           /\ Len(codec.q_receive_packet) <= Len(codec.frames)
           /\ codec.q_receive_packet
                 = SubSeq(codec.frames, 1, Len(codec.q_receive_packet))
           /\ codec.pos = Len(codec.stream)
                 => codec.q_receive_packet = codec.frames

\* two different frames, both with escaped bytes, were read in four chunks
\* or more, one of which ended inside a frame
C35_TwoFramesInPieces ==
    /\ codec.op = "received"
    /\ "stream" \in DOMAIN codec
    /\ codec.pos = Len(codec.stream)
    /\ Len(codec.frames) = 2
    /\ Len(codec.frames[1]) > 14
    /\ Len(codec.frames[2]) > 14
    /\ codec.frames[1] # codec.frames[2]
    /\ codec.n_chunks >= 4
    /\ codec.split
    /\ codec.q_receive_packet = codec.frames

(***************************************************************************)
(* kiss_unwrap on arbitrary byte sequences, framed or not.                 *)
(***************************************************************************)
MaxRawLen == 6

RawPackets == UNION { [1..k -> KissBytes] : k \in 0..MaxRawLen }

InitRaw ==
    /\ InitArq
    /\ codec \in { [op |-> "raw", kiss_packet |-> p, unwrapped |-> << >>] :
                   p \in RawPackets }

UnwrapRaw ==
    /\ codec.op = "raw"
    /\ codec' = [codec EXCEPT !.op = "raw_unwrapped",
                              !.unwrapped = kiss_unwrap(codec.kiss_packet)]
    /\ UNCHANGED arq_vars

NextRaw == UnwrapRaw

SpecRaw == InitRaw /\ [][NextRaw]_vars

(***************************************************************************)
(* C36.  kiss_unwrap returns for every byte sequence.  Up to the first     *)
(* FESC of the data bytes (kiss_packet[2:-1]) the output is the data; an   *)
(* FESC that is the last data byte contributes nothing; an FESC followed   *)
(* by TFESC or TFEND gives FESC or FEND; an FESC followed by any other     *)
(* byte contributes nothing, nor does that byte, and decoding continues    *)
(* with the byte after it.                                                 *)
(***************************************************************************)
C36_MalformedEscapesSkipped ==
    codec.op = "raw_unwrapped" =>
        LET data == Slice(codec.kiss_packet, 2, -1)
            escs == { i \in 1..Len(data) : data[i] = FESC }
            Rest(j) == kiss_unwrap(<< FEND, 0 >> \o SubSeq(data, j, Len(data))
                                   \o << FEND >>)
        IN  IF escs = { } THEN codec.unwrapped = data
            ELSE LET i == CHOOSE j \in escs : \A k \in escs : j <= k
                     before == SubSeq(data, 1, i - 1)
                 IN  IF i = Len(data) THEN codec.unwrapped = before
                     ELSE IF data[i + 1] = TFESC
                     THEN codec.unwrapped = before \o << FESC >> \o Rest(i + 2)
                     ELSE IF data[i + 1] = TFEND
                     THEN codec.unwrapped = before \o << FEND >> \o Rest(i + 2)
                     ELSE codec.unwrapped = before \o Rest(i + 2)

\* FESC FESC TFEND: the first FESC and the byte after it are dropped and the
\* TFEND is taken as data
C36_DecodingContinues ==
    /\ codec.op = "raw_unwrapped"
    /\ codec.kiss_packet = << FEND, 65, FESC, FESC, TFEND, FEND >>
    /\ codec.unwrapped = << TFEND >>

(***************************************************************************)
(* Lithium framing (serial radio)                                          *)
(***************************************************************************)
\* the checksum loops of lithium_wrap: ck_a = ck_a + p; ck_b = ck_b + ck_a
\* for the bytes i..last (1-based) in order, starting from ck_a, ck_b; the
\* sums are not reduced until the end.  The range is walked by halves, the
\* second half starting from the sums the first half ends with (sums of
\* bytes, never negative).
RECURSIVE LithiumSums(_, _, _, _, _)
LithiumSums(bytes, i, last, ck_a, ck_b) ==
    IF i > last THEN [ck_a |-> ck_a, ck_b |-> ck_b]
    ELSE IF i = last
    THEN [ck_a |-> ck_a + bytes[i], ck_b |-> ck_b + ck_a + bytes[i]]
    ELSE LET mid == (i + last) \div 2
             first == LithiumSums(bytes, i, mid, ck_a, ck_b)
         IN  IF first.ck_a + first.ck_b >= 0
             THEN LithiumSums(bytes, mid + 1, last, first.ck_a, first.ck_b)
             ELSE first

\* variant: the trailer checksum leaves out the header checksum bytes
lithium_wrapSkipHeaderSum(tc_packet) ==
    LET n == Len(tc_packet)
        head == LithiumSums(<< 72, 101, 32, 4, 0, n >>, 3, 6, 0, 0)
        start == << 72, 101, 32, 4, 0, n, head.ck_a % 256, head.ck_b % 256 >>
        all == LithiumSums(<< 32, 4, 0, n >> \o tc_packet, 1, 4 + n, 0, 0)
    IN  start \o tc_packet \o << all.ck_a % 256, all.ck_b % 256 >>

\* lithium_wrap(tc_packet), for packets whose length fits lithium_packet[5]
lithium_wrap(tc_packet) ==
    LET n == Len(tc_packet)
        blank == << 72, 101, 32, 4, 0, n, 0, 0 >> \o tc_packet \o << 0, 0 >>
        head == LithiumSums(blank, 3, 6, 0, 0)
        filled == [blank EXCEPT ![7] = head.ck_a % 256, ![8] = head.ck_b % 256]
        all == LithiumSums(filled, 3, Len(filled) - 2, 0, 0)
    IN  [filled EXCEPT ![Len(filled) - 1] = all.ck_a % 256,
                       ![Len(filled)] = all.ck_b % 256]

\* variant: the trailer is kept
lithium_unwrapKeepTrailer(lithium_packet) == SliceFrom(lithium_packet, 8)

\* lithium_unwrap(lithium_packet) = lithium_packet[8:-2]
lithium_unwrap(lithium_packet) == Slice(lithium_packet, 8, -2)

\* payloads of 0 to 255 bytes: short ones of every content over three byte
\* values, long ones filled with one value, a telemetry frame of the
\* spacecraft and a frame that carries the ground station's own callsign
LithiumBytes == { 0, 1, 255 }

MaxLithiumLen == 3

LithiumLongLengths == { 16, 100, 254, 255 }

LithiumPackets ==
    UNION { [1..k -> LithiumBytes] : k \in 0..MaxLithiumLen }
    \cup { [i \in 1..k |-> b] : k \in LithiumLongLengths, b \in LithiumBytes }
    \cup { TmFrame(1, << 3, 1 >>, sc_mac_key), ax25_header \o Zeros(16) }

\* what follows the frame on the serial line: nothing yet, or the next frame
LithiumFollowing == { << >>, lithium_wrap(sc_ax25_header \o Zeros(16)) }

InitLithium ==
    /\ InitArq
    /\ codec \in { [op |-> "packet", tc_packet |-> p, lithium_packet |-> << >>,
                    changed |-> 0, serial |-> << >>, rcv_buffer |-> << >>,
                    unwrapped |-> << >>, q_receive_packet |-> << >>,
                    running |-> TRUE] : p \in LithiumPackets }

LithiumWrap ==
    /\ codec.op = "packet"
    /\ codec' = [codec EXCEPT !.op = "lithium_wrapped",
                              !.lithium_packet = lithium_wrap(codec.tc_packet)]
    /\ UNCHANGED arq_vars

\* one pass of the loop of the serial branch of receive_packet.  The frame
\* is on the serial line, unchanged (k = 0) or with its length byte (k = 6)
\* or one of its four checksum bytes changed, and the bytes of following
\* come after it.  The port is opened without a timeout, so radio.receive(n)
\* returns n bytes or waits for them: the pass reads 8 bytes, then
\* rcv_buffer[5] + 2 bytes, unwraps what it has read and hands it to
\* queue_receive_packet.  ax25_callsign raises IndexError there on a packet
\* of fewer than 14 bytes, which ends receive_packet; a packet with the
\* station's own callsign is not queued.
LithiumUnwrap ==
    /\ codec.op = "lithium_wrapped"
    /\ \E k \in { 0, 6, 7, 8, Len(codec.lithium_packet) - 1, Len(codec.lithium_packet) },
          following \in LithiumFollowing :
          LET received == IF k = 0 THEN codec.lithium_packet
                          ELSE [codec.lithium_packet EXCEPT ![k] = (@ + 1) % 256]
              serial == received \o following
              header == SubSeq(serial, 1, 8)
              count == At(header, 5) + 2
              rcv_buffer == SubSeq(serial, 1, 8 + count)
              ax25_packet == lithium_unwrap(rcv_buffer)
              queued == queue_receive_packet(ax25_packet, gs_ax25_callsign)
          IN  IF Len(serial) < 8 + count
              THEN codec' = [codec EXCEPT !.op = "lithium_waiting",
                                          !.lithium_packet = received,
                                          !.changed = k,
                                          !.serial = SubSeq(serial, 9, Len(serial)),
                                          !.rcv_buffer = header]
              ELSE codec' = [codec EXCEPT
                               !.op = "lithium_unwrapped",
                               !.lithium_packet = received,
                               !.changed = k,
                               !.serial = SubSeq(serial, 9 + count, Len(serial)),
                               !.rcv_buffer = rcv_buffer,
                               !.unwrapped = ax25_packet,
                               !.q_receive_packet = queued.put,
                               !.running = ~ queued.raised]
    /\ UNCHANGED arq_vars

NextLithium == LithiumWrap \/ LithiumUnwrap

SpecLithium == InitLithium /\ [][NextLithium]_vars

\* sum of weight(i) * s[i] for i in lo..hi, by halves
RECURSIVE WeightedSum(_, _, _, _)
WeightedSum(s, lo, hi, last) ==
    IF lo > hi THEN 0
    ELSE IF lo = hi THEN (last - lo + 1) * s[lo]
    ELSE LET mid == (lo + hi) \div 2
         IN  WeightedSum(s, lo, mid, last) + WeightedSum(s, mid + 1, hi, last)

RECURSIVE PlainSum(_, _, _)
PlainSum(s, lo, hi) ==
    IF lo > hi THEN 0
    ELSE IF lo = hi THEN s[lo]
    ELSE LET mid == (lo + hi) \div 2
         IN  PlainSum(s, lo, mid) + PlainSum(s, mid + 1, hi)

(***************************************************************************)
(* C37.  lithium_wrap(p), for len(p) <= 255, is the header 48 65 20 04 00  *)
(* len(p) ck_a ck_b, then p, then ck_a2 ck_b2, where (ck_a, ck_b) is the   *)
(* running sum over frame bytes 2..5 and (ck_a2, ck_b2) the running sum    *)
(* over frame bytes 2 up to the last byte of p, each mod 256.  The running *)
(* sum over bytes x1..xm is ck_a = x1 + ... + xm and                       *)
(* ck_b = m*x1 + (m-1)*x2 + ... + 1*xm.                                    *)
(***************************************************************************)
C37_LithiumFrameLayout ==
    codec.op = "lithium_wrapped" =>
        LET f == codec.lithium_packet
            n == Len(codec.tc_packet)
        IN  /\ Len(f) = n + 10
            /\ SubSeq(f, 1, 6) = << 72, 101, 32, 4, 0, n >>
            /\ SubSeq(f, 9, 8 + n) = codec.tc_packet
            /\ f[7] = PlainSum(f, 3, 6) % 256
            /\ f[8] = WeightedSum(f, 3, 6, 6) % 256
            /\ f[n + 9] = PlainSum(f, 3, n + 8) % 256
            /\ f[n + 10] = WeightedSum(f, 3, n + 8, n + 8) % 256

\* a packet of 255 bytes 0xFF was wrapped: the length byte is 0xFF and the
\* sums have wrapped around
C37_LongestPacketWrapped ==
    /\ codec.op = "lithium_wrapped"
    /\ Len(codec.tc_packet) = 255
    /\ codec.tc_packet[255] = 255
    /\ codec.lithium_packet[6] = 255
    /\ Len(codec.lithium_packet) = 265

(***************************************************************************)
(* C38.  lithium_unwrap(lithium_wrap(p)) = p for every p of at most 255    *)
(* bytes, and lithium_unwrap returns the bytes between the 8-byte header   *)
(* and the 2-byte trailer without checking a checksum: a frame with a      *)
(* wrong checksum byte is accepted with the same body.  (The frames read   *)
(* from the serial line have their length byte intact, or the pass of      *)
(* receive_packet reads another number of bytes.)                          *)
(***************************************************************************)
C38_LithiumRoundTrip ==
    /\ codec.op \in { "lithium_wrapped", "lithium_waiting", "lithium_unwrapped" }
          => lithium_unwrap(lithium_wrap(codec.tc_packet)) = codec.tc_packet
    /\ (codec.op = "lithium_unwrapped" /\ codec.changed # 6)
          => /\ codec.unwrapped = codec.tc_packet
             /\ codec.rcv_buffer = codec.lithium_packet

\* a frame whose trailer checksum is wrong has been unwrapped to its body
C38_WrongChecksumAccepted ==
    /\ codec.op = "lithium_unwrapped"
    /\ codec.changed = Len(codec.lithium_packet)
    /\ codec.lithium_packet # lithium_wrap(codec.tc_packet)
    /\ Len(codec.tc_packet) = 255
    /\ codec.unwrapped = codec.tc_packet
    /\ codec.q_receive_packet = << codec.tc_packet >>

(***************************************************************************)
(* The simulated spacecraft: libertas_sim from the start of its process.   *)
(* main sets its variables and fills the two payload queues, then calls    *)
(* GsCipher() without the key that GsCipher.__init__(self,                 *)
(* gs_encryption_key) requires: the call raises TypeError and the process  *)
(* ends before the radio is opened, the receiver started or the main loop  *)
(* entered.  The ground station may put frames on the link at any time:    *)
(* telecommands of the catalog with a MAC made with the ground station's   *)
(* key or with another key, telecommands that lack their arguments, OA     *)
(* commands and cut frames.  codec.offered holds them in order; codec.tx   *)
(* is what the simulator has transmitted.  The bytes of the payloads,      *)
(* drawn with random.randint, are never read and are left out.             *)
(***************************************************************************)
SimFrames == 2

\* health_payloads_pending and science_payloads_pending as main sets them
SimHealthPayloads == 40

SimSciencePayloads == 40

TcFrame(spp_data, key) ==
    ax25_wrap(ax25_header, 24, spp_wrap(24, FrameWeek, FrameSow, 1, spp_data, key),
              ground_maxsize_packets)

\* SET_COMMS as process_command builds it: window, three bytes, the two
\* sequence numbers, the turnaround and the transmit power
SimSetComms(window, spacecraft_sn, ground_sn) ==
    << 11, window, 4, 5, 2 >> \o to_bigendian(spacecraft_sn, 2)
       \o to_bigendian(ground_sn, 2) \o to_bigendian(1000, 2) \o << 125 >>

SimCommandData ==
    { << 5 >>, << 6, 1, 0, 1 >>, << 6, 0 >>, << 6 >>, << 127 >>, << 9 >>, << 4 >>,
      << 7, 0, 240, 0, 1 >>, << 10, 2 >>, SimSetComms(3, 0, 0),
      SimSetComms(0, 65535, 7), << 11, 3 >>, << 1 >>, << 8, 0, 240, 0, 240 >>,
      << 8, 0, 241, 0, 240 >>, << 8 >>, << 12 >>, << 14 >>, << 2, 1 >>,
      << 2, 255 >>, << 2 >>, << 3, 1 >>, << 3, 255 >>, << 85 >> }

SimFrameInputs ==
    { TcFrame(d, gs_mac_key) : d \in SimCommandData }
    \cup { TcFrame(d, sc_mac_key) : d \in { << 9 >>, << 1 >>, << 3, 1 >>, << 14 >> } }
    \cup { ax25_header \o oa_key \o << c >> : c \in { 49, 52 } }
    \cup { SubSeq(TcFrame(<< 9 >>, gs_mac_key), 1, n) : n \in { 10, 20 } }

\* a frame as SppPacket('TC', dynamic=False).parse_ax25 reads it
SimParsed ==
    [f \in SimFrameInputs |-> parse_ax25(f, 24, gs_mac_key, ground_maxsize_packets)]

\* the process has been started and main has not run yet
InitSim ==
    /\ InitArq
    /\ codec = [op |-> "sim", pc |-> "main", running |-> TRUE,
                health_payloads_pending |-> 0,
                science_payloads_pending |-> 0,
                tm_packets_waiting_ack |-> << >>,
                offered |-> << >>,
                tx |-> << >>]

\* main up to the cipher: the variables of the loop get their values, the
\* configuration and the keys are read and the queues are filled with
\* health_payloads_pending and science_payloads_pending payloads
SimMain ==
    /\ codec.op = "sim"
    /\ codec.pc = "main"
    /\ codec' = [codec EXCEPT !.pc = "cipher",
                              !.health_payloads_pending = SimHealthPayloads,
                              !.science_payloads_pending = SimSciencePayloads,
                              !.tm_packets_waiting_ack = << >>]
    /\ UNCHANGED arq_vars

\* gs_cipher = GsCipher(): TypeError, __init__ lacking gs_encryption_key;
\* main is left by the exception and the process ends
SimCipher ==
    /\ codec.op = "sim"
    /\ codec.pc = "cipher"
    /\ codec' = [codec EXCEPT !.pc = "ended", !.running = FALSE]
    /\ UNCHANGED arq_vars

\* the ground station transmits the frame ax25_packet to the simulator
SimOffer(ax25_packet) ==
    /\ codec.op = "sim"
    /\ Len(codec.offered) < SimFrames
    /\ codec' = [codec EXCEPT !.offered = Append(@, ax25_packet)]
    /\ UNCHANGED arq_vars

NextSim ==
    \/ SimMain
    \/ SimCipher
    \/ \E f \in SimFrameInputs : SimOffer(f)

SpecSim == InitSim /\ [][NextSim]_vars

\* the telecommand tc is no OA command and its MAC check has failed
MacFailed(tc) == tc.validation_mask # 0 /\ ~ tc.is_oa_packet

====
